---- MODULE Spec2Model ----
(***************************************************************************)
(* A model of gpu-array-js: the NDArray host/device staleness tracking    *)
(* (send, load, set, execute), the broadcast / promotion resolver, the    *)
(* strided kernel's index decomposition, reshape / index calculation and  *)
(* the multi-pass reduction.                                               *)
(*                                                                         *)
(* Spec       : arrays, the device queue and the readback promises         *)
(* SpecPure   : broadcastShapes, broadcastStrides, promoteType, _vector_op *)
(*              and _func2 with their descriptors and bind groups, the     *)
(*              directives of the templates, main of the strided programs  *)
(* SpecShape  : NDArray constructor, reshape, #calcIndex                   *)
(* SpecReduce : _reduce_op / _reduce_func with reduce_op / reduce_func     *)
(* SpecBackend: GPUBackend calls, caches, buffers, queue and device loss   *)
(* SpecBackendFair: SpecBackend with a device that completes its work      *)
(* SpecPRNG   : Xoshiro128pp constructor, next and normal                  *)
(***************************************************************************)
EXTENDS Integers, Sequences, FiniteSets, TLC

(***************************************************************************)
(* Bounds of the model.                                                    *)
(***************************************************************************)
NArrays == 2       \* arrays the host holds
ArrLen == 2        \* elements of each array of Spec
MaxVal == 0        \* full(), set() and asarray() write values 0..MaxVal
MaxOps == 5        \* host calls in one behaviour of Spec
MaxQueue == 1      \* commands the device lags behind when the host calls
MaxKernelRank == 4 \* ranks of the outputs of the strided programs
MaxRank == 3       \* ranks of the shapes of SpecPure and SpecShape
MaxExtent == 3     \* extents of those shapes
MaxStride == 2      \* strides a caller supplies
MaxCustomRank == 1 \* ranks of the operands with caller-supplied strides
MaxN == 130        \* lengths of the arrays SpecReduce reduces
MaxCalls == 4      \* host calls in one behaviour of SpecBackend
MaxPending == 2    \* queue operations pending when the host calls

Arrays == 1..NArrays
Cells == 1..ArrLen
HostVals == 0..MaxVal
Modes == {"read-only", "write-only", "read-write"}

VARIABLES
    allocated,     \* allocated[a]: gpu.Array() has constructed a
    cpu,           \* cpu[a]: the host typed array (NDArray.cpu)
    gpu,           \* gpu[a]: the contents of the device buffer (NDArray.gpu)
    cpu_dirty,     \* NDArray.cpu_dirty
    gpu_dirty,     \* NDArray.gpu_dirty
    load_promise,  \* NDArray.#load_promise: 0 is null, else the staging id
    staging,       \* the staging buffers that exist (MAP_READ | COPY_DST)
    queue,         \* device.queue: submitted commands not yet executed
    nops,          \* host calls made so far
    nkernels,      \* kernels submitted so far; kernel n writes KernelOut(n)
    nstaging,      \* staging buffers created so far
    kern,          \* kern[a]: the last kernel submitted that writes a, when no
                   \* set() or writeBuffer on a followed it (0: none)
    await,         \* await[a]: the kernel the last load(a) returning the pending
                   \* operation came after (0: none)
    ret,           \* what the last host call returned: the promise p (0: none)
                   \* and, for load(), the return statement taken
    load_result,   \* load_result[a]: [got, want] when a load operation completed
    held,          \* held[a][i]: <<v>> when set() wrote v at cell i of a and no
                   \* kernel writing a was submitted since, else <<>>
    call,          \* SpecPure: the last call of a pure function
    nd,            \* SpecShape: the NDArray under test
    idx,           \* SpecShape: the last #calcIndex
    red,           \* SpecReduce: the reduction in progress
    be,            \* SpecBackend: the GPUBackend, its device and its arrays
    prng           \* SpecPRNG: the generators

devvars == <<allocated, cpu, gpu, cpu_dirty, gpu_dirty, load_promise, staging,
             queue, nops, nkernels, nstaging, kern, await,
             ret, load_result, held>>
purevars == <<call, nd, idx, red, be, prng>>
vars == <<devvars, purevars>>

NoRet == [p |-> 0, path |-> "none"]
NoCall == [fn |-> "none"]
NoArray == [made |-> FALSE]
NoIndex == [done |-> FALSE]
NoReduce == [pc |-> "idle"]
NoPRNG == <<>>

\* new GPUBackend(device): not lost, empty caches; with it the device's side:
\* the buffers created, the programs compiled and layouts made, the queue.
NewBackend ==
    [lost |-> FALSE,
     layout |-> {},        \* this.layout: entries [key, id]
     shader |-> {},        \* this.shader: entries [code, id]
     pipe |-> {},          \* this.pipe: the shader modules with a pipeline
     compiled |-> <<>>,    \* the codes given to device.createShaderModule
     layouts |-> <<>>,     \* the keys given to device.createBindGroupLayout
     bufs |-> <<>>,        \* the buffers device.createBuffer returned
     queue |-> <<>>,       \* device.queue: operations not yet completed
     nsub |-> 0,           \* operations given to device.queue so far
     waits |-> {},         \* pending onSubmittedWorkDone().then(...) callbacks
     ncalls |-> 0,         \* host calls made so far
     last |-> [fn |-> "none"],
     err |-> "",           \* the error the running call has thrown
     val |-> 0]            \* the value the running call's last step returned

(***************************************************************************)
(* Values.  A kernel's output is a token naming the kernel: kernel n       *)
(* fills its output with KernelOut(n), which no host value equals.         *)
(***************************************************************************)
KernelOut(n) == 0 - n

Fill(v) == [i \in Cells |-> v]

RECURSIVE DevApply(_, _, _)
\* The contents of a's device buffer after the commands q ran on contents g.
DevApply(q, a, g) ==
    IF q = <<>> THEN g
    ELSE LET c == Head(q)
             g1 == IF c.type = "write" /\ c.a = a THEN c.data
                   ELSE IF c.type = "kernel" /\ a \in c.writes
                        THEN Fill(KernelOut(c.tok))
                   ELSE g
         IN DevApply(Tail(q), a, g1)

(***************************************************************************)
(* Spec: the arrays, the queue and the readback promises.                  *)
(***************************************************************************)
DevInit ==
    /\ allocated = [a \in Arrays |-> FALSE]
    /\ cpu = [a \in Arrays |-> Fill(0)]
    /\ gpu = [a \in Arrays |-> Fill(0)]
    /\ cpu_dirty = [a \in Arrays |-> FALSE]
    /\ gpu_dirty = [a \in Arrays |-> FALSE]
    /\ load_promise = [a \in Arrays |-> 0]
    /\ staging = {}
    /\ queue = <<>>
    /\ nops = 0
    /\ nkernels = 0
    /\ nstaging = 0
    /\ kern = [a \in Arrays |-> 0]
    /\ await = [a \in Arrays |-> 0]
    /\ ret = NoRet
    /\ load_result = [a \in Arrays |-> [got |-> Fill(0), want |-> 0]]
    /\ held = [a \in Arrays |-> Fill(<<>>)]

Init ==
    /\ DevInit
    /\ call = NoCall
    /\ nd = NoArray
    /\ idx = NoIndex
    /\ red = NoReduce
    /\ be = NewBackend
    /\ prng = NoPRNG

\* The part of the state that send() and execute() change.
Flags == [cd |-> cpu_dirty, gd |-> gpu_dirty, q |-> queue, kn |-> kern]

\* The host runs on: the behaviour's budget of calls is not spent and the device
\* is not further behind than the model follows it.
HostRuns == nops < MaxOps /\ Len(queue) < MaxQueue

\* A host call on array a, which exists.
HostCall(a) == allocated[a] /\ HostRuns

\* new NDArray(device, options): both flags false, zeroed host and device buffers.
ArrayNew(a, fill, dirty) ==
    /\ ~allocated[a]
    /\ HostRuns
    /\ allocated' = [allocated EXCEPT ![a] = TRUE]
    /\ cpu' = [cpu EXCEPT ![a] = fill]
    /\ gpu' = [gpu EXCEPT ![a] = Fill(0)]
    /\ cpu_dirty' = [cpu_dirty EXCEPT ![a] = dirty]
    /\ gpu_dirty' = [gpu_dirty EXCEPT ![a] = FALSE]
    /\ load_promise' = [load_promise EXCEPT ![a] = 0]
    /\ nops' = nops + 1
    /\ ret' = NoRet
    /\ held' = [held EXCEPT ![a] = Fill(<<>>)]
    /\ UNCHANGED <<staging, queue, nkernels, nstaging, kern, await, load_result>>
    /\ UNCHANGED purevars

\* GPUBackend.Array(options)
Array(a) == ArrayNew(a, Fill(0), FALSE)

\* GPUBackend.ones(options)
Ones(a) == ArrayNew(a, Fill(1), TRUE)

\* GPUBackend.full(value, options)
Full(a, v) == ArrayNew(a, Fill(v), TRUE)

\* GPUBackend.arange({stop: length}, options)
Arange(a) == ArrayNew(a, [i \in Cells |-> i - 1], TRUE)

\* GPUBackend.asarray(value, options): Array() then set(value)
Asarray(a, value) == ArrayNew(a, value, TRUE)

\* send() without `this.cpu_dirty = false`
SendOnMut(st, a) ==
    IF ~st.cd[a] THEN st
    ELSE [st EXCEPT !.q = Append(@, [type |-> "write", a |-> a, data |-> cpu[a]]),
                    !.kn[a] = 0]

\* NDArray.send() on the flags st
SendOn(st, a) ==
    IF ~st.cd[a] THEN st
    ELSE [st EXCEPT !.q = Append(@, [type |-> "write", a |-> a, data |-> cpu[a]]),
                    !.cd[a] = FALSE,
                    !.kn[a] = 0]

\* NDArray.send()
Send(a) ==
    /\ HostCall(a)
    /\ LET st == SendOn(Flags, a)
       IN /\ cpu_dirty' = st.cd
          /\ queue' = st.q
          /\ kern' = st.kn
    /\ nops' = nops + 1
    /\ ret' = NoRet
    /\ UNCHANGED <<allocated, cpu, gpu, gpu_dirty, load_promise, staging,
                   nkernels, nstaging, await, load_result, held>>
    /\ UNCHANGED purevars

\* NDArray.set(value, ...index) with a full index tuple
SetAt(a, v, i) ==
    /\ HostCall(a)
    /\ cpu_dirty' = [cpu_dirty EXCEPT ![a] = TRUE]
    /\ cpu' = [cpu EXCEPT ![a][i] = v]
    /\ held' = [held EXCEPT ![a][i] = <<v>>]
    /\ kern' = [kern EXCEPT ![a] = 0]
    /\ nops' = nops + 1
    /\ ret' = NoRet
    /\ UNCHANGED <<allocated, gpu, gpu_dirty, load_promise, staging, queue,
                   nkernels, nstaging, await, load_result>>
    /\ UNCHANGED purevars

\* NDArray.set(value) with no index and value.length === this.length
SetAll(a, value) ==
    /\ HostCall(a)
    /\ cpu' = [cpu EXCEPT ![a] = value]
    /\ held' = [held EXCEPT ![a] = [i \in Cells |-> <<value[i]>>]]
    /\ cpu_dirty' = [cpu_dirty EXCEPT ![a] = TRUE]
    /\ kern' = [kern EXCEPT ![a] = 0]
    /\ nops' = nops + 1
    /\ ret' = NoRet
    /\ UNCHANGED <<allocated, gpu, gpu_dirty, load_promise, staging, queue,
                   nkernels, nstaging, await, load_result>>
    /\ UNCHANGED purevars

NoResult == [got |-> Fill(0), want |-> 0]

\* What a completed load operation left in the host buffer, kept when the
\* load() that returned the operation came after kernel `want`.
LoadOutcome(got, want) ==
    IF want = 0 THEN NoResult ELSE [got |-> got, want |-> want]

\* load() without `if(this.#load_promise){ return this.#load_promise; }`
LoadMut(a) ==
    /\ HostCall(a)
    /\ nops' = nops + 1
    /\ IF ~gpu_dirty[a]
       THEN /\ ret' = [p |-> 0, path |-> "clean"]
            /\ await' = [await EXCEPT ![a] = 0]
            /\ load_result' = [load_result EXCEPT
                                 ![a] = LoadOutcome(cpu[a], kern[a])]
            /\ UNCHANGED <<load_promise, staging, queue, nstaging>>
       ELSE /\ nstaging' = nstaging + 1
            /\ staging' = staging \cup {[id |-> nstaging + 1, a |-> a,
                                         data |-> Fill(0), filled |-> FALSE]}
            /\ queue' = Append(queue, [type |-> "copy", a |-> a,
                                       st |-> nstaging + 1])
            /\ load_promise' = [load_promise EXCEPT ![a] = nstaging + 1]
            /\ ret' = [p |-> nstaging + 1, path |-> "new"]
            /\ await' = [await EXCEPT ![a] = kern[a]]
            /\ UNCHANGED load_result
    /\ UNCHANGED <<allocated, cpu, gpu, cpu_dirty, gpu_dirty, nkernels, kern,
                   held>>
    /\ UNCHANGED purevars

\* NDArray.load()
Load(a) ==
    /\ HostCall(a)
    /\ nops' = nops + 1
    /\ IF ~gpu_dirty[a]
       THEN \* return;
            /\ ret' = [p |-> 0, path |-> "clean"]
            /\ await' = [await EXCEPT ![a] = 0]
            /\ load_result' = [load_result EXCEPT
                                 ![a] = LoadOutcome(cpu[a], kern[a])]
            /\ UNCHANGED <<load_promise, staging, queue, nstaging>>
       ELSE IF load_promise[a] # 0
       THEN \* return this.#load_promise;
            /\ ret' = [p |-> load_promise[a], path |-> "pending"]
            /\ await' = [await EXCEPT ![a] = kern[a]]
            /\ UNCHANGED <<load_promise, staging, queue, nstaging, load_result>>
       ELSE \* createBuffer, copyBufferToBuffer, submit, mapAsync(...).then(...)
            /\ nstaging' = nstaging + 1
            /\ staging' = staging \cup {[id |-> nstaging + 1, a |-> a,
                                         data |-> Fill(0), filled |-> FALSE]}
            /\ queue' = Append(queue, [type |-> "copy", a |-> a,
                                       st |-> nstaging + 1])
            /\ load_promise' = [load_promise EXCEPT ![a] = nstaging + 1]
            /\ ret' = [p |-> nstaging + 1, path |-> "new"]
            /\ await' = [await EXCEPT ![a] = kern[a]]
            /\ UNCHANGED load_result
    /\ UNCHANGED <<allocated, cpu, gpu, cpu_dirty, gpu_dirty, nkernels, kern,
                   held>>
    /\ UNCHANGED purevars

\* The callback of staging.mapAsync(...).then(...) in load(), for staging buffer s.
LoadDone(s) ==
    /\ s \in staging
    /\ s.filled
    /\ cpu' = [cpu EXCEPT ![s.a] = s.data]
    /\ staging' = staging \ {s}
    /\ gpu_dirty' = [gpu_dirty EXCEPT ![s.a] = FALSE]
    /\ load_promise' = [load_promise EXCEPT ![s.a] = 0]
    /\ load_result' = [load_result EXCEPT ![s.a] = LoadOutcome(s.data, await[s.a])]
    /\ await' = [await EXCEPT ![s.a] = 0]
    /\ UNCHANGED <<allocated, gpu, cpu_dirty, queue, nops, nkernels, nstaging,
                   kern, ret, held>>
    /\ UNCHANGED purevars

RECURSIVE ExecFlagsMut(_, _)
\* The loop over specs with a "write-only" case that leaves cpu_dirty alone
ExecFlagsMut(st, specs) ==
    IF specs = <<>> THEN st
    ELSE LET a == Head(specs).array
             mode == Head(specs).mode
             st1 == IF mode = "read-only" THEN SendOn(st, a)
                    ELSE IF mode = "write-only"
                         THEN [st EXCEPT !.gd[a] = TRUE]
                    ELSE [SendOn(st, a) EXCEPT !.gd[a] = TRUE]
         IN ExecFlagsMut(st1, Tail(specs))

RECURSIVE ExecFlags(_, _)
\* The loop over specs at the head of GPUBackend.execute.
ExecFlags(st, specs) ==
    IF specs = <<>> THEN st
    ELSE LET a == Head(specs).array
             mode == Head(specs).mode
             st1 == IF mode = "read-only" THEN SendOn(st, a)
                    ELSE IF mode = "write-only"
                         THEN [st EXCEPT !.cd[a] = FALSE, !.gd[a] = TRUE]
                    ELSE [SendOn(st, a) EXCEPT !.gd[a] = TRUE]
         IN ExecFlags(st1, Tail(specs))

Range(f) == {f[i] : i \in DOMAIN f}
Writes(specs) == {s.array : s \in {t \in Range(specs) : t.mode # "read-only"}}

\* GPUBackend.execute(shader, specs, dispatch, constants)
Execute(specs) ==
    /\ HostRuns
    /\ \A s \in Range(specs) : allocated[s.array]
    /\ LET st == ExecFlags(Flags, specs)
       IN /\ cpu_dirty' = st.cd
          /\ gpu_dirty' = st.gd
          /\ queue' = Append(st.q, [type |-> "kernel", writes |-> Writes(specs),
                                    tok |-> nkernels + 1])
          /\ kern' = [a \in Arrays |->
                        IF a \in Writes(specs) THEN nkernels + 1 ELSE st.kn[a]]
    /\ held' = [a \in Arrays |->
                   IF a \in Writes(specs) THEN Fill(<<>>) ELSE held[a]]
    /\ nkernels' = nkernels + 1
    /\ nops' = nops + 1
    /\ ret' = NoRet
    /\ UNCHANGED <<allocated, cpu, gpu, load_promise, staging, nstaging, await,
                   load_result>>
    /\ UNCHANGED purevars

\* The device runs the command at the head of its queue.
DeviceStep ==
    /\ queue # <<>>
    /\ LET c == Head(queue)
       IN /\ gpu' = [a \in Arrays |-> DevApply(<<c>>, a, gpu[a])]
          /\ staging' = IF c.type = "copy"
                        THEN {IF s.id = c.st
                              THEN [s EXCEPT !.data = gpu[c.a], !.filled = TRUE]
                              ELSE s : s \in staging}
                        ELSE staging
    /\ queue' = Tail(queue)
    /\ UNCHANGED <<allocated, cpu, cpu_dirty, gpu_dirty, load_promise, nops,
                   nkernels, nstaging, kern, await, ret, load_result, held>>
    /\ UNCHANGED purevars

\* The binding sets the builtin operations pass to execute: every operation
\* binds an output, and the device accepts no dispatch that binds one buffer both
\* read-only and writable.
SpecLists ==
    LET S == [array : Arrays, mode : Modes]
        L == {<<x>> : x \in S} \cup {<<x, y>> : x \in S, y \in S}
    IN {l \in L : /\ \E k \in DOMAIN l : l[k].mode # "read-only"
                   /\ \A i, j \in DOMAIN l :
                        (i # j /\ l[i].array = l[j].array)
                           => (l[i].mode = "read-only" /\ l[j].mode = "read-only")}

Next ==
    \/ \E a \in Arrays : Array(a)
    \/ \E a \in Arrays : Ones(a)
    \/ \E a \in Arrays, v \in HostVals : Full(a, v)
    \/ \E a \in Arrays : Arange(a)
    \/ \E a \in Arrays : Asarray(a, [i \in Cells |-> MaxVal])
    \/ \E a \in Arrays : Send(a)
    \/ \E a \in Arrays, v \in HostVals, i \in Cells : SetAt(a, v, i)
    \/ \E a \in Arrays, v \in HostVals : SetAll(a, Fill(v))
    \/ \E a \in Arrays : Load(a)
    \/ \E s \in staging : LoadDone(s)
    \/ \E specs \in SpecLists : Execute(specs)
    \/ DeviceStep

Spec == Init /\ [][Next]_vars

(***************************************************************************)
(* SpecPure: the broadcast / promotion resolver and binary arithmetic.     *)
(***************************************************************************)
Ok(v) == [ok |-> TRUE, val |-> v, error |-> ""]
Throw(msg) == [ok |-> FALSE, val |-> <<>>, error |-> msg]

\* The shape of an operand that has none (a number: lhs.shape is undefined).
Undefined == <<0 - 1>>

Max(a, b) == IF a >= b THEN a ELSE b

RECURSIVE SeqsOf(_, _)
\* The sequences of length n over S.
SeqsOf(S, n) ==
    IF n = 0 THEN {<<>>}
    ELSE {Append(q, x) : q \in SeqsOf(S, n - 1), x \in S}

Shapes == UNION {SeqsOf(1..MaxExtent, r) : r \in 1..MaxRank}

DTypes == {"i32", "u32", "f16", "f32"}

\* promoteType with the f16 test ahead of the f32 test
promoteTypeMut(t1, t2) ==
    IF t1 = t2 THEN Ok(IF t1 = "undefined" THEN "f32" ELSE t1)
    ELSE IF t1 = "f16" \/ t2 = "f16" THEN Ok("f16")
    ELSE IF t1 = "f32" \/ t2 = "f32" THEN Ok("f32")
    ELSE IF t1 # "undefined" /\ t2 # "undefined"
         THEN Throw("Incompatible Types")
    ELSE Ok(IF t1 = "undefined" THEN t2 ELSE t1)

\* promoteType(t1, t2); "undefined" is the dtype of a number
promoteType(t1, t2) ==
    IF t1 = t2 THEN Ok(IF t1 = "undefined" THEN "f32" ELSE t1)
    ELSE IF t1 = "f32" \/ t2 = "f32" THEN Ok("f32")
    ELSE IF t1 = "f16" \/ t2 = "f16" THEN Ok("f16")
    ELSE IF t1 # "undefined" /\ t2 # "undefined"
         THEN Throw("Incompatible Types")
    ELSE Ok(IF t1 = "undefined" THEN t2 ELSE t1)

RECURSIVE MaxLen(_)
\* shapes.reduce((a, s) => Math.max(a, s.length), 0)
MaxLen(shapes) ==
    IF shapes = <<>> THEN 0 ELSE Max(Len(Head(shapes)), MaxLen(Tail(shapes)))

RECURSIVE AxisExtentMut(_, _, _, _)
\* The reducer of broadcastShapes without its throw: the later extent wins
AxisExtentMut(shapes, length, i, a) ==
    IF shapes = <<>> THEN a
    ELSE LET s == Head(shapes)
             si == s[i - (length - Len(s)) + 1]
             a1 == IF i < length - Len(s) THEN a
                   ELSE IF a = si \/ si = 1 THEN a
                   ELSE si
         IN AxisExtentMut(Tail(shapes), length, i, a1)

RECURSIVE AxisExtent(_, _, _, _)
\* shapes.reduce((a, s) => ..., 1) of broadcastShapes for the output axis i
\* (counted from 0), started with a; 0 when it throws.
AxisExtent(shapes, length, i, a) ==
    IF shapes = <<>> THEN a
    ELSE LET s == Head(shapes)
             si == s[i - (length - Len(s)) + 1]
             a1 == IF i < length - Len(s) THEN a
                   ELSE IF a = si \/ si = 1 THEN a
                   ELSE IF a = 1 THEN si
                   ELSE 0
         IN IF a1 = 0 THEN 0 ELSE AxisExtent(Tail(shapes), length, i, a1)

\* broadcastShapes(...shapes)
broadcastShapes(shapes) ==
    LET sh == [k \in DOMAIN shapes |->
                 IF shapes[k] = Undefined THEN <<1>> ELSE shapes[k]]
        length == MaxLen(sh)
        out == [i \in 1..length |-> AxisExtent(sh, length, i - 1, 1)]
    IN IF \E i \in 1..length : out[i] = 0
       THEN Throw("Incompatible Shape")
       ELSE Ok(out)

RECURSIVE Product(_)
Product(s) == IF s = <<>> THEN 1 ELSE Head(s) * Product(Tail(s))

\* The strides the NDArray constructor derives from a shape:
\* shape.reduce((a, si) => { a = a.map(ai => ai * si); a.push(1); return a; }, [])
DerivedStrides(shape) ==
    [i \in 1..Len(shape) |-> Product(SubSeq(shape, i + 1, Len(shape)))]

RECURSIVE CustomLength(_, _)
\* shape.reduce((a, v, i) => a + (v-1)*strides[i], 1)
CustomLength(shape, strides) ==
    IF shape = <<>> THEN 1
    ELSE (Head(shape) - 1) * Head(strides)
           + CustomLength(Tail(shape), Tail(strides))

\* The bytes of one element (NDArray.itemsize)
itemsize(dtype) == IF dtype = "f16" THEN 2 ELSE 4

\* The size check of the NDArray constructor on length elements of a dtype
SizeFits(length, dtype) == (length * itemsize(dtype)) % 4 = 0

\* new NDArray(device, {shape, strides}) with the default dtype: the fields the
\* resolver reads.  strides = Undefined when the caller gives none.
NDArray(shape, strides) ==
    [made |-> TRUE,
     dtype |-> "f32",
     shape |-> shape,
     custom_strides |-> (strides # Undefined),
     strides |-> IF strides = Undefined THEN DerivedStrides(shape) ELSE strides,
     length |-> IF strides = Undefined THEN Product(shape)
                ELSE CustomLength(shape, strides)]

RECURSIVE StridesLoop(_, _, _, _, _)
\* The for loop of broadcastStrides from axis i (counted from 1) on;
\* <<0 - 1>> when it throws.
StridesLoop(array, shape, strides, diff, i) ==
    IF i > Len(shape) THEN strides
    ELSE IF strides[i] = 0 THEN StridesLoop(array, shape, strides, diff, i + 1)
    ELSE IF array.shape[i - diff] = shape[i]
         THEN StridesLoop(array, shape, strides, diff, i + 1)
    ELSE IF array.shape[i - diff] # 1 THEN Undefined
    ELSE StridesLoop(array, shape,
                     [j \in 1..Len(shape) |-> IF j = i THEN 0 ELSE strides[j]],
                     diff, i + 1)

\* broadcastStrides(array, shape)
broadcastStrides(array, shape) ==
    IF Len(array.strides) > Len(shape) THEN Throw("Incompatible Shape")
    ELSE LET diff == Len(shape) - Len(array.shape)
             padded == [i \in 1..Len(shape) |->
                          IF i <= Len(shape) - Len(array.strides) THEN 0
                          ELSE array.strides[i - (Len(shape) - Len(array.strides))]]
             r == StridesLoop(array, shape, padded, diff, 1)
         IN IF r = Undefined THEN Throw("Incompatible Shape") ELSE Ok(r)

\* equalShapes(...shapes) for shapes that are all defined
equalShapes(shapes) ==
    \A k \in DOMAIN shapes : shapes[k] = shapes[1]

\* The pass of the loop without the remainder: i = O / out_strides[s]
IndirectStepMut(st, s, ls, rs, os) ==
    LET iN == st.O % os[s]
        i == st.O \div os[s + 1]
    IN [O |-> st.O - iN, L |-> st.L + i * ls[s + 1], R |-> st.R + i * rs[s + 1]]

\* One pass of the for loop of vector_op_indirect's main at axis s (counted
\* from 0, s > 0) on st = [O, L, R].
IndirectStep(st, s, ls, rs, os) ==
    LET iN == st.O % os[s]
        i == iN \div os[s + 1]
    IN [O |-> st.O - iN, L |-> st.L + i * ls[s + 1], R |-> st.R + i * rs[s + 1]]

RECURSIVE IndirectLoop(_, _, _, _, _)
\* for(var s: u32 = arrayLength(&out_strides) - 1; s > 0; s--){ ... }
IndirectLoop(st, s, ls, rs, os) ==
    IF s = 0 THEN st
    ELSE IndirectLoop(IndirectStep(st, s, ls, rs, os), s - 1, ls, rs, os)

\* The offsets L and R that vector_op_indirect's main computes for invocation k.
IndirectOffsets(k, ls, rs, os) ==
    LET st == IndirectLoop([O |-> k, L |-> 0, R |-> 0], Len(os) - 1, ls, rs, os)
        i == st.O \div os[1]
    IN <<st.L + i * ls[1], st.R + i * rs[1]>>

\* The element of a storage array at offset i; an access outside the array
\* yields no element of the operand (written 0 - 1).
ReadAt(data, i) == IF i >= 0 /\ i < Len(data) THEN data[i + 1] ELSE 0 - 1

\* The host data of the operands of SpecPure: every element differs, and a sum
\* of an lhs and an rhs element names both.
LhsData(n) == [i \in 1..n |-> i]
RhsData(n) == [i \in 1..n |-> 1000 * i]

\* GPUBackend._vector_op("+", lhs, rhs, out) for two arrays; out.made is FALSE
\* when the caller passes no out.
VectorOp(lhs, rhs, out) ==
    LET dtype == promoteType(lhs.dtype, rhs.dtype)
        shape == broadcastShapes(<<lhs.shape, rhs.shape>>)
    IN IF ~dtype.ok THEN dtype
       ELSE IF ~out.made /\ ~shape.ok THEN shape
       ELSE IF ~out.made /\ ~SizeFits(Product(shape.val), dtype.val)
            THEN Throw("Data Size must be multiple of 4 bytes")
       ELSE LET o == IF out.made THEN out
                     ELSE [NDArray(shape.val, Undefined) EXCEPT !.dtype = dtype.val]
                use_strides == \/ lhs.custom_strides
                               \/ rhs.custom_strides
                               \/ ~equalShapes(<<lhs.shape, rhs.shape, o.shape>>)
                ls == broadcastStrides(lhs, o.shape)
                rs == broadcastStrides(rhs, o.shape)
                ld == LhsData(lhs.length)
                rd == RhsData(rhs.length)
            IN IF o.custom_strides
               THEN Throw("Custom Strides for out is not supported")
               ELSE IF use_strides /\ ~ls.ok THEN ls
               ELSE IF use_strides /\ ~rs.ok THEN rs
               ELSE LET offs == [k \in 1..o.length |->
                                   IF use_strides
                                   THEN IndirectOffsets(k - 1, ls.val, rs.val,
                                                        o.strides)
                                   ELSE <<k - 1, k - 1>>]
                    IN Ok([shape |-> o.shape,
                           dtype |-> o.dtype,
                           strided |-> use_strides,
                           offs |-> offs,
                           data |-> [k \in 1..o.length |->
                                       ReadAt(ld, offs[k][1])
                                         + ReadAt(rd, offs[k][2])]])

\* GPUBackend.sizeX
sizeX == 64

\* JavaScript values handed to the program templates: an object {binding, ...},
\* an array of values, undefined.
Binding(b) == [kind |-> "object", binding |-> b]
Slot(b, type, conv) == [kind |-> "object", binding |-> b, type |-> type,
                        conv |-> conv]
List(items) == [kind |-> "array", items |-> items]
JSUndefined == [kind |-> "undefined"]

\* v[i]: an element of an array; undefined for an object without the property.
ItemOf(v, i) ==
    IF v.kind = "array" /\ i < Len(v.items) THEN v.items[i + 1] ELSE JSUndefined

\* The i-th parameter (from 1) of a function called with ...args.
Param(args, i) == IF i <= Len(args) THEN args[i] ELSE JSUndefined

TypeError == "TypeError: Cannot read properties of undefined"

\* func2(...shader_args): the slots the generated source declares.
func2(shader_args) ==
    LET args == Param(shader_args, 3)
        out == Param(shader_args, 4)
    IN Ok([template |-> "func2",
           f |-> shader_args[1],
           slots |-> [arg0 |-> ItemOf(args, 0).binding,
                      arg1 |-> ItemOf(args, 1).binding,
                      out |-> out.binding]])

\* func2_indirect(...shader_args): the parameters are f, size, args, out,
\* args_strides, out_strides; the source reads args_strides[0].binding,
\* args_strides[1].binding and out_strides.binding.
func2_indirect(shader_args) ==
    LET args == Param(shader_args, 3)
        out == Param(shader_args, 4)
        args_strides == Param(shader_args, 5)
        out_strides == Param(shader_args, 6)
    IN IF \/ ItemOf(args_strides, 0).kind = "undefined"
          \/ ItemOf(args_strides, 1).kind = "undefined"
          \/ out_strides.kind = "undefined"
       THEN Throw(TypeError)
       ELSE Ok([template |-> "func2_indirect",
                f |-> shader_args[1],
                slots |-> [arg0 |-> ItemOf(args, 0).binding,
                           arg1 |-> ItemOf(args, 1).binding,
                           out |-> out.binding,
                           arg0_strides |-> ItemOf(args_strides, 0).binding,
                           arg1_strides |-> ItemOf(args_strides, 1).binding,
                           out_strides |-> out_strides.binding]])

\* GPUBackend._func2(f, arg0, arg1, out): what the call returns or throws, with
\* the program it submitted.
Func2(f, arg0, arg1, out) ==
    LET dtype == promoteType(arg0.dtype, arg1.dtype)
        shape == broadcastShapes(<<arg0.shape, arg1.shape>>)
    IN IF ~dtype.ok THEN dtype
       ELSE IF ~out.made /\ ~shape.ok THEN shape
       ELSE IF ~out.made /\ ~SizeFits(Product(shape.val), dtype.val)
            THEN Throw("Data Size must be multiple of 4 bytes")
       ELSE LET o == IF out.made THEN out
                     ELSE [NDArray(shape.val, Undefined) EXCEPT !.dtype = dtype.val]
                conv(v) == IF v.dtype = dtype.val THEN "" ELSE dtype.val
                out_conv == IF o.dtype = dtype.val THEN "" ELSE o.dtype
                use_strides == \/ arg0.custom_strides
                               \/ arg1.custom_strides
                               \/ ~equalShapes(<<arg0.shape, arg1.shape, o.shape>>)
                shader_args ==
                    <<f, sizeX,
                      List(<<Slot(0, arg0.dtype, conv(arg0)),
                             Slot(1, arg1.dtype, conv(arg1))>>),
                      Slot(2, o.dtype, out_conv)>>
                    \o (IF use_strides
                        THEN <<Binding(3), Binding(4), Binding(5)>>
                        ELSE <<>>)
                s0 == broadcastStrides(arg0, o.shape)
                s1 == broadcastStrides(arg1, o.shape)
                shader == IF use_strides THEN func2_indirect(shader_args)
                          ELSE func2(shader_args)
            IN IF o.custom_strides
               THEN Throw("Custom Strides for out is not supported")
               ELSE IF use_strides /\ ~s0.ok THEN s0
               ELSE IF use_strides /\ ~s1.ok THEN s1
               ELSE IF ~shader.ok THEN shader
               ELSE Ok([shape |-> o.shape,
                        dtype |-> o.dtype,
                        strided |-> use_strides,
                        program |-> shader.val])

\* gpu.Array({shape, dtype}) as an operand of SpecPure
Operand(shape, dtype) == [NDArray(shape, Undefined) EXCEPT !.dtype = dtype]

NoOut == [made |-> FALSE]

\* The result of a call that has not returned.
Pending == [ok |-> FALSE, val |-> <<>>, error |-> "pending"]

Invoke(fn, args) == [fn |-> fn, args |-> args, ret |-> Pending]

\* The shapes given as a third argument of broadcastShapes, and the strides a
\* caller supplies: every stride list over 0..MaxStride of the shape's rank.
ShortShapes == {Undefined} \cup SeqsOf(1..MaxExtent, 1)
CustomShapes == UNION {SeqsOf(1..MaxExtent, r) : r \in 1..MaxCustomRank}
CustomStrides(shape) == SeqsOf(0..MaxStride, Len(shape))

\* max, min, pow: the functions of two arguments (f2 of the constructor)
Func2Names == {"max", "min", "pow"}

\* The pass of the loop without the remainder: i = O / out_strides[s]
StridedStepMut(st, s, ss, os) ==
    LET i == st.O \div os[s + 1]
    IN [O |-> st.O - i,
        I |-> [n \in DOMAIN ss |-> st.I[n] + i * ss[n][s + 1]],
        i |-> <<i>> \o st.i]

\* One pass of the for loop of the main of func2_indirect and where_indirect
\* at axis s (counted from 0, s > 0): st.O is O, st.I the offsets (I0, I1 or
\* C, T, F), ss the operands' stride arrays, st.i the values i took.
StridedStep(st, s, ss, os) ==
    LET iN == st.O % os[s]
        i == iN \div os[s + 1]
    IN [O |-> st.O - i,
        I |-> [n \in DOMAIN ss |-> st.I[n] + i * ss[n][s + 1]],
        i |-> <<i>> \o st.i]

RECURSIVE StridedLoop(_, _, _, _)
\* for(var s: u32 = arrayLength(&out_strides) - 1; s > 0; s--){ ... }
StridedLoop(st, s, ss, os) ==
    IF s = 0 THEN st
    ELSE StridedLoop(StridedStep(st, s, ss, os), s - 1, ss, os)

\* main of func2_indirect (two operands) and of where_indirect (three) for
\* invocation k: the offsets at which it reads the operands and the values
\* of i, first axis first.
StridedMain(k, ss, os) ==
    LET st == StridedLoop([O |-> k, I |-> [n \in DOMAIN ss |-> 0], i |-> <<>>],
                          Len(os) - 1, ss, os)
        i == st.O \div os[1]
    IN [I |-> [n \in DOMAIN ss |-> st.I[n] + i * ss[n][1]],
        i |-> <<i>> \o st.i]

\* The dispatch of a strided program over an output of shape out with the
\* stride arrays the host binds: broadcastStrides(operand, out.shape) for each
\* operand and out.strides.
Dispatch(template, out, operands) ==
    LET ss == [n \in DOMAIN operands |-> broadcastStrides(operands[n], out).val]
        os == DerivedStrides(out)
    IN Ok([template |-> template,
           at |-> [k \in 1..Product(out) |-> StridedMain(k - 1, ss, os)]])

\* A number handed to a template (size): it has no property type.
JSNumber == [kind |-> "number"]

\* a.type of an argument of f16
TypeOf(a) ==
    IF a.kind = "object" /\ "type" \in DOMAIN a THEN a.type ELSE "undefined"

\* f16(...arrays): the directive for the arguments the template passes
f16(arrays) ==
    IF \E i \in 1..Len(arrays) : TypeOf(arrays[i]) = "f16"
    THEN "enable f16;" ELSE ""

\* The templates and the number of storage arrays with an element type that
\* each declares (the stride arrays are array<u32> in every template).
Templates ==
    {"vector_op", "vector_op_indirect", "func1", "func2", "func2_indirect",
     "reduce_op", "reduce_func", "where", "where_indirect"}
Operands(template) ==
    IF template \in {"where", "where_indirect"} THEN 4
    ELSE IF template \in {"func1", "reduce_op", "reduce_func"} THEN 2
    ELSE 3

\* The first line of the source of each template, for the operands ops (the
\* inputs in order, then out), and the element types of the arrays it declares.
Directive(template, ops) ==
    IF template \in {"vector_op", "vector_op_indirect"}
    THEN f16(<<ops[1], ops[2], ops[3]>>)
    ELSE IF template \in {"func1", "reduce_op", "reduce_func"}
    THEN f16(<<ops[1], ops[2]>>)
    ELSE IF template = "func2"
    THEN f16(<<ops[1], ops[2], JSNumber>>)
    ELSE IF template = "func2_indirect"
    THEN f16(<<ops[1], ops[2], ops[3]>>)
    ELSE ""

Source(template, ops) ==
    Ok([directive |-> Directive(template, ops),
        declares |-> {ops[i].type : i \in 1..Len(ops)}])

\* The output shapes of the strided programs, and for an output shape the
\* operand shapes that broadcast to it: the shape with some extents 1, and
\* the shape without its leading axes.
KernelShapes == UNION {SeqsOf(1..MaxExtent, r) : r \in 1..MaxKernelRank}
Masked(out) ==
    {[i \in 1..Len(out) |-> IF i \in M THEN 1 ELSE out[i]] :
        M \in SUBSET (1..Len(out))}
Suffixes(out) == {SubSeq(out, j, Len(out)) : j \in 2..Len(out)} \cup {<<1>>}

\* A number passed as an operand: `lhs instanceof NDArray` is false for it
\* and its dtype, shape and custom_strides are undefined.
IsNDArray(v) == "shape" \in DOMAIN v
DTypeOf(v) == IF IsNDArray(v) THEN v.dtype ELSE "undefined"
ShapeOf(v) == IF IsNDArray(v) THEN v.shape ELSE Undefined
HasCustomStrides(v) == IsNDArray(v) /\ v.custom_strides

\* {scalar: true, type: dtype} and {scalar: true}
ScalarArg(type) == [kind |-> "object", scalar |-> TRUE, type |-> type]
ScalarStrides == [kind |-> "object", scalar |-> TRUE]

\* shader_args with `binding: b++` evaluated for lhs before the test of
\* lhs_array: a scalar lhs uses up slot 0
ShaderArgsMut(lhs, rhs, out, dtype, use_strides) ==
    LET n(v) == IF IsNDArray(v) THEN 1 ELSE 0
        conv(v) == IF dtype = v.dtype THEN "" ELSE dtype
        b1 == 1
        b2 == b1 + n(rhs)
        b3 == b2 + 1
        b4 == b3 + n(lhs)
        b5 == b4 + n(rhs)
    IN <<"+", sizeX,
         IF IsNDArray(lhs) THEN Slot(0, lhs.dtype, conv(lhs)) ELSE ScalarArg(dtype),
         IF IsNDArray(rhs) THEN Slot(b1, rhs.dtype, conv(rhs)) ELSE ScalarArg(dtype),
         Slot(b2, out.dtype, IF dtype = out.dtype THEN "" ELSE out.dtype)>>
       \o (IF use_strides
           THEN <<IF IsNDArray(lhs) THEN Binding(b3) ELSE ScalarStrides,
                  IF IsNDArray(rhs) THEN Binding(b4) ELSE ScalarStrides,
                  Binding(b5)>>
           ELSE <<>>)

\* shader_args of _vector_op: op, size, lhs, rhs, out and, for the strided
\* program, lhs_strides, rhs_strides, out_strides; each `b++` is evaluated
\* only for a descriptor that is not {scalar: true}.  b1..b5 are the values of
\* b after the descriptors of lhs, rhs, out, lhs_strides and rhs_strides.
ShaderArgs(lhs, rhs, out, dtype, use_strides) ==
    LET n(v) == IF IsNDArray(v) THEN 1 ELSE 0
        conv(v) == IF dtype = v.dtype THEN "" ELSE dtype
        b1 == n(lhs)
        b2 == b1 + n(rhs)
        b3 == b2 + 1
        b4 == b3 + n(lhs)
        b5 == b4 + n(rhs)
    IN <<"+", sizeX,
         IF IsNDArray(lhs) THEN Slot(0, lhs.dtype, conv(lhs)) ELSE ScalarArg(dtype),
         IF IsNDArray(rhs) THEN Slot(b1, rhs.dtype, conv(rhs)) ELSE ScalarArg(dtype),
         Slot(b2, out.dtype, IF dtype = out.dtype THEN "" ELSE out.dtype)>>
       \o (IF use_strides
           THEN <<IF IsNDArray(lhs) THEN Binding(b3) ELSE ScalarStrides,
                  IF IsNDArray(rhs) THEN Binding(b4) ELSE ScalarStrides,
                  Binding(b5)>>
           ELSE <<>>)

\* execute_buffers of _vector_op; the buffers are named after the variables
\* that hold them.
ExecuteBuffers(lhs, rhs, use_strides) ==
    LET ro(a) == <<[array |-> a, mode |-> "read-only"]>>
        if(c, q) == IF c THEN q ELSE <<>>
    IN if(IsNDArray(lhs), ro("lhs"))
       \o if(IsNDArray(rhs), ro("rhs"))
       \o <<[array |-> "out", mode |-> "write-only"]>>
       \o if(use_strides,
             if(IsNDArray(lhs), ro("lhs_strides"))
             \o if(IsNDArray(rhs), ro("rhs_strides"))
             \o ro("out_strides"))

\* constants of _vector_op: undefined for two arrays, else an object with
\* the scalar operands under "lhs" and "rhs".
Constants(lhs, rhs) ==
    IF IsNDArray(lhs) /\ IsNDArray(rhs) THEN JSUndefined
    ELSE [kind |-> "object",
          keys |-> {k \in {"lhs", "rhs"} :
                      \/ k = "lhs" /\ ~IsNDArray(lhs)
                      \/ k = "rhs" /\ ~IsNDArray(rhs)}]

\* entries of the bind group of execute: specs.map((s, i) => ({binding: i,
\* resource: {buffer: s.array.gpu}}))
BindGroup(specs) ==
    [i \in DOMAIN specs |-> [binding |-> i - 1, buffer |-> specs[i].array]]

\* The pipeline of execute for a shader module, with this.pipe before the
\* call: whether the cached one is taken, and this.pipe after the call.
Pipeline(pipe, shader, constants) ==
    IF constants.kind = "undefined" /\ shader \in pipe
    THEN [reused |-> TRUE, pipe |-> pipe]
    ELSE [reused |-> FALSE,
          pipe |-> IF constants.kind = "undefined"
                   THEN pipe \cup {shader} ELSE pipe]

\* GPUBackend._vector_op("+", lhs, rhs, out) for operands that are arrays or
\* numbers, on a backend whose pipeline cache is pipe: the descriptors given
\* to the template, the bind group, the constants and the pipeline of the
\* dispatch.  createShader returns one module for one source text, and the
\* source text is the template applied to the descriptors.
VectorOpBinding(lhs, rhs, out, pipe) ==
    LET dtype == promoteType(DTypeOf(lhs), DTypeOf(rhs))
        shape == broadcastShapes(<<ShapeOf(lhs), ShapeOf(rhs)>>)
    IN IF ~dtype.ok THEN dtype
       ELSE IF ~out.made /\ ~shape.ok THEN shape
       ELSE IF ~out.made /\ ~SizeFits(Product(shape.val), dtype.val)
            THEN Throw("Data Size must be multiple of 4 bytes")
       ELSE LET o == IF out.made THEN out
                     ELSE [NDArray(shape.val, Undefined) EXCEPT !.dtype = dtype.val]
                use_strides ==
                    \/ HasCustomStrides(lhs)
                    \/ HasCustomStrides(rhs)
                    \/ ~equalShapes(SelectSeq(<<ShapeOf(lhs), ShapeOf(rhs), o.shape>>,
                                              LAMBDA s : s # Undefined))
                ls == IF IsNDArray(lhs) THEN broadcastStrides(lhs, o.shape)
                      ELSE Ok(<<>>)
                rs == IF IsNDArray(rhs) THEN broadcastStrides(rhs, o.shape)
                      ELSE Ok(<<>>)
                shader_args == ShaderArgs(lhs, rhs, o, dtype.val, use_strides)
                execute_buffers == ExecuteBuffers(lhs, rhs, use_strides)
                constants == Constants(lhs, rhs)
                shader == [template |-> IF use_strides THEN "vector_op_indirect"
                                        ELSE "vector_op",
                           args |-> shader_args]
            IN IF o.custom_strides
               THEN Throw("Custom Strides for out is not supported")
               ELSE IF use_strides /\ ~ls.ok THEN ls
               ELSE IF use_strides /\ ~rs.ok THEN rs
               ELSE Ok([strided |-> use_strides,
                        shader_args |-> shader_args,
                        entries |-> BindGroup(execute_buffers),
                        constants |-> constants,
                        strides |-> IF use_strides
                                    THEN {"out_strides"}
                                         \cup (IF IsNDArray(lhs)
                                               THEN {"lhs_strides"} ELSE {})
                                         \cup (IF IsNDArray(rhs)
                                               THEN {"rhs_strides"} ELSE {})
                                    ELSE {},
                        shader |-> shader,
                        pipeline |-> Pipeline(pipe, shader, constants)])

\* The operands of the calls that follow the binding of _vector_op: a number,
\* arrays of two types and three shapes, and an array with strides of its own.
BindOperands ==
    {JSNumber, Operand(<<2, 3>>, "f32"), Operand(<<1>>, "f32"),
     Operand(<<3>>, "i32"), NDArray(<<2>>, <<2>>)}
BindOuts == {NoOut, Operand(<<2, 3>>, "f32")}

\* this.pipe of a backend when _vector_op is called: empty, or as one
\* earlier call of _vector_op left it.
PipeAfter(r) == IF r.ok THEN r.val.pipeline.pipe ELSE {}
Pipes ==
    {{}} \cup {PipeAfter(VectorOpBinding(l, r, o, {})) :
                 l \in BindOperands, r \in BindOperands, o \in BindOuts}

\* The calls SpecPure makes.
PureCall ==
    \/ \E t1, t2 \in DTypes \cup {"undefined"} :
          call = Invoke("promoteType", <<t1, t2>>)
    \/ \E s1, s2 \in Shapes \cup {Undefined} :
          call = Invoke("broadcastShapes", <<s1, s2>>)
    \/ \E s1, s2 \in Shapes, s3 \in ShortShapes :
          call = Invoke("broadcastShapes", <<s1, s2, s3>>)
    \/ \E s, t \in Shapes :
          call = Invoke("broadcastStrides", <<NDArray(s, Undefined), t>>)
    \/ \E s \in CustomShapes, t \in Shapes : \E st \in CustomStrides(s) :
          call = Invoke("broadcastStrides", <<NDArray(s, st), t>>)
    \/ \E l, r \in Shapes :
          call = Invoke("_vector_op", <<Operand(l, "f32"), Operand(r, "f32"), NoOut>>)
    \/ \E t1, t2 \in DTypes :
          call = Invoke("_vector_op",
                        <<Operand(<<2, 3>>, t1), Operand(<<2, 1>>, t2), NoOut>>)
    \/ \E l, o \in Shapes :
          call = Invoke("_vector_op",
                        <<Operand(l, "f32"), Operand(<<1>>, "f32"), Operand(o, "f32")>>)
    \/ \E f \in Func2Names, s0 \in Shapes, s1 \in SeqsOf(1..MaxExtent, 1) :
          call = Invoke("_func2",
                        <<f, Operand(s0, "f32"), Operand(s1, "f32"), NoOut>>)
    \/ \E out \in KernelShapes : \E m \in Masked(out), x \in Suffixes(out) :
          \/ call = Invoke("dispatch",
                           <<"func2_indirect", out,
                             <<NDArray(m, Undefined), NDArray(x, Undefined)>>>>)
          \/ call = Invoke("dispatch",
                           <<"where_indirect", out,
                             <<NDArray(m, Undefined), NDArray(x, Undefined),
                               NDArray(<<1>>, Undefined)>>>>)
    \/ \E t \in Templates : \E ts \in SeqsOf(DTypes, Operands(t)) :
          call = Invoke("template",
                        <<t, [i \in 1..Len(ts) |-> Slot(i - 1, ts[i], "")]>>)
    \/ \E l, r \in BindOperands, o \in BindOuts, pipe \in Pipes :
          call = Invoke("_vector_op.execute", <<l, r, o, pipe>>)

InitPure ==
    /\ DevInit
    /\ PureCall
    /\ nd = NoArray
    /\ idx = NoIndex
    /\ red = NoReduce
    /\ be = NewBackend
    /\ prng = NoPRNG

Returns(fn, result) ==
    /\ call.fn = fn
    /\ call.ret.error = "pending"
    /\ call' = [call EXCEPT !.ret = result]
    /\ UNCHANGED <<devvars, be, prng, nd, idx, red>>

CallPromoteType ==
    Returns("promoteType", promoteType(call.args[1], call.args[2]))

CallBroadcastShapes ==
    Returns("broadcastShapes", broadcastShapes(call.args))

CallBroadcastStrides ==
    Returns("broadcastStrides", broadcastStrides(call.args[1], call.args[2]))

CallVectorOp ==
    Returns("_vector_op", VectorOp(call.args[1], call.args[2], call.args[3]))

CallFunc2 ==
    Returns("_func2",
            Func2(call.args[1], call.args[2], call.args[3], call.args[4]))

CallTemplate ==
    Returns("template", Source(call.args[1], call.args[2]))

CallDispatch ==
    Returns("dispatch", Dispatch(call.args[1], call.args[2], call.args[3]))

CallVectorOpBinding ==
    Returns("_vector_op.execute",
            VectorOpBinding(call.args[1], call.args[2], call.args[3],
                            call.args[4]))

NextPure ==
    \/ CallVectorOpBinding
    \/ CallDispatch
    \/ CallTemplate
    \/ CallFunc2
    \/ CallPromoteType
    \/ CallBroadcastShapes
    \/ CallBroadcastStrides
    \/ CallVectorOp

SpecPure == InitPure /\ [][NextPure]_vars

(***************************************************************************)
(* SpecShape: one array is created, reshaped and accessed by index.        *)
(***************************************************************************)
\* The sum of a number and undefined * n.
NaN == 0 - 1

\* What reading outside a typed array gives (no element of nd.cpu is 0).
NoElement == 0

\* NDArray.#ensure_shape(shape)
ensure_shape(shape) ==
    LET sh == IF shape = Undefined THEN <<1>> ELSE shape
    IN IF \E i \in DOMAIN sh : sh[i] <= 0
       THEN Throw("shape must be positive")
       ELSE Ok(sh)

\* reshape without the test of the new shape's product against this.length
reshapeMut(array, shape) ==
    IF array.custom_strides
    THEN Throw("reshape() is not supported with custom strides")
    ELSE LET sh == ensure_shape(shape)
         IN IF ~sh.ok THEN sh
            ELSE Ok([array EXCEPT !.shape = sh.val])

\* NDArray.reshape(shape): the array after the call, or the error it throws.
reshape(array, shape) ==
    IF array.custom_strides
    THEN Throw("reshape() is not supported with custom strides")
    ELSE LET sh == ensure_shape(shape)
         IN IF ~sh.ok THEN sh
            ELSE IF Product(sh.val) # array.length
                 THEN Throw("Reshape with incompatible shape")
                 ELSE Ok([array EXCEPT !.shape = sh.val])

RECURSIVE IndexSum(_, _, _, _)
\* index.reduce((a, _, i) => a + this.strides[i] * index[i], 0) from axis i
\* (counted from 1) on; this.strides[i] is undefined beyond the strides' end.
IndexSum(array, index, i, a) ==
    IF i > Len(index) THEN a
    ELSE IF a = NaN \/ i > Len(array.strides) THEN NaN
    ELSE IndexSum(array, index, i + 1, a + array.strides[i] * index[i])

\* NDArray.#calcIndex(...index)
calcIndex(array, index) ==
    IF Len(index) # Len(array.shape) THEN Throw("Index mismatch")
    ELSE Ok(IndexSum(array, index, 1, 0))

\* TypedArray.prototype.at(i): NaN converts to 0.
At(data, i) ==
    LET k == IF i = NaN THEN 0 ELSE i
    IN IF k < Len(data) THEN data[k + 1] ELSE NoElement

\* data[i] = value on a typed array: an index that is no element's is ignored.
Store(data, i, value) ==
    [k \in 1..Len(data) |-> IF i # NaN /\ k = i + 1 THEN value ELSE data[k]]

\* gpu.arange({start: 1, stop: length + 1}, {shape, strides}), host side
NewArray(shape, strides) ==
    /\ ~nd.made
    /\ LET array == NDArray(shape, strides)
       IN nd' = [made |-> TRUE, array |-> array, cpu |-> LhsData(array.length),
                 cpu_dirty |-> TRUE, gpu_dirty |-> FALSE, reshaped |-> "no"]
    /\ UNCHANGED <<devvars, be, prng, call, idx, red>>

\* NDArray.reshape(shape)
Reshape(shape) ==
    /\ nd.made
    /\ nd.reshaped = "no"
    /\ ~idx.done
    /\ LET r == reshape(nd.array, shape)
       IN nd' = IF r.ok THEN [nd EXCEPT !.array = r.val, !.reshaped = "ok"]
                ELSE [nd EXCEPT !.reshaped = r.error]
    /\ UNCHANGED <<devvars, be, prng, call, idx, red>>

\* NDArray.send() of the array of SpecShape
SendArray ==
    /\ nd.made
    /\ ~idx.done
    /\ nd.cpu_dirty
    /\ queue' = Append(queue, [type |-> "write", a |-> 1, data |-> nd.cpu])
    /\ nd' = [nd EXCEPT !.cpu_dirty = FALSE]
    /\ UNCHANGED <<allocated, cpu, gpu, cpu_dirty, gpu_dirty, load_promise,
                   staging, nops, nkernels, nstaging, kern, await, ret,
                   load_result, held>>
    /\ UNCHANGED <<be, prng, call, idx, red>>

\* NDArray.get_without_load(...index)
GetWithoutLoad(index) ==
    /\ nd.made
    /\ ~idx.done
    /\ LET at == calcIndex(nd.array, index)
       IN idx' = [done |-> TRUE, fn |-> "get", index |-> index,
                  error |-> IF Len(index) > Len(nd.array.shape)
                            THEN "Too many indices"
                            ELSE IF Len(index) = Len(nd.array.shape) THEN at.error
                            ELSE "Not Implemented yet",
                  offset |-> IF Len(index) = Len(nd.array.shape) THEN at.val
                             ELSE NaN,
                  value |-> IF Len(index) = Len(nd.array.shape)
                            THEN At(nd.cpu, at.val) ELSE NoElement]
    /\ UNCHANGED <<devvars, be, prng, call, nd, red>>

\* NDArray.set(value, ...index) with at least one index
SetIndex(value, index) ==
    /\ nd.made
    /\ ~idx.done
    /\ LET at == calcIndex(nd.array, index)
           full == Len(index) = Len(nd.array.shape)
       IN /\ idx' = [done |-> TRUE, fn |-> "set", index |-> index,
                     error |-> IF Len(index) > Len(nd.array.shape)
                               THEN "Too many indices"
                               ELSE IF full THEN at.error
                               ELSE "Not Implemented yet",
                     offset |-> IF full THEN at.val ELSE NaN,
                     value |-> value]
          /\ nd' = IF Len(index) > Len(nd.array.shape) THEN nd
                   ELSE [nd EXCEPT !.cpu_dirty = TRUE,
                                   !.cpu = IF full THEN Store(nd.cpu, at.val, value)
                                           ELSE @]
    /\ UNCHANGED <<devvars, be, prng, call, red>>

\* The arguments of reshape(): shapes, no argument, a non-positive extent.
ReshapeArgs == Shapes \cup {Undefined, <<0>>}

Indices == UNION {SeqsOf(0..(MaxExtent - 1), r) : r \in 1..MaxRank}

\* The value set() writes in SpecShape: no element of a new array has it.
Written == 0 - 7

NextShape ==
    \/ \E shape \in Shapes : NewArray(shape, Undefined)
    \/ \E shape \in CustomShapes : \E st \in CustomStrides(shape) :
          NewArray(shape, st)
    \/ \E shape \in ReshapeArgs : Reshape(shape)
    \/ SendArray
    \/ \E index \in Indices : GetWithoutLoad(index)
    \/ \E index \in Indices : SetIndex(Written, index)

SpecShape == Init /\ [][NextShape]_vars

(***************************************************************************)
(* SpecReduce: sum, prod, minimum and maximum of one array.                *)
(***************************************************************************)
RECURSIVE FloorLog2(_)
\* Math.floor(Math.log2(n)), exact for the lengths of SpecReduce
FloorLog2(n) == IF n < 2 THEN 0 ELSE 1 + FloorLog2(n \div 2)

RECURSIVE Pow2(_)
\* 1 << k
Pow2(k) == IF k = 0 THEN 1 ELSE 2 * Pow2(k - 1)

Min(a, b) == IF a <= b THEN a ELSE b

\* const length = (arg.length > 64) ? Math.min(1 << (...), this.sizeX) : 1
PassLength(n) ==
    IF n > 64 THEN Min(Pow2(FloorLog2(n) - 1), sizeX) ELSE 1

\* v op w of reduce_op and f(v, w) of reduce_func on the values of SpecReduce
ApplyOp(op, v, w) ==
    CASE op = "+" -> v + w
      [] op = "*" -> v * w
      [] op = "min" -> Min(v, w)
      [] op = "max" -> Max(v, w)

\* An element of a reduced array: its value and the input elements combined
\* into it, in the order of combination.
Combine(op, x, y) == [v |-> ApplyOp(op, x.v, y.v), src |-> x.src \o y.src]

\* var v = arg[id.x] in every invocation id.x < arrayLength(&out) of the one
\* workgroup of `size` invocations
LaneInit(arg, size) == [id \in 1..size |-> arg[id]]

\* The k-th turn of for(var i = id.x + size; i < N; i += size){ v = v op arg[i]; }
\* in every invocation whose i is still below N
LaneTurn(op, arg, size, k, v) ==
    [id \in 1..size |->
       IF (id - 1) + k * size < Len(arg)
       THEN Combine(op, v[id], arg[(id - 1) + k * size + 1])
       ELSE v[id]]

\* The input of a reduction: full(2) for sum, as the tests have it, and values
\* whose product, minimum and maximum stay small.
InputValue(op, n, i) ==
    CASE op = "+" -> 2
      [] op = "*" -> IF i <= 4 THEN 2 ELSE 1
      [] op = "min" -> n + 1 - i
      [] op = "max" -> i

ReduceOps == {"+", "*", "min", "max"}

\* Lengths of the f16 arrays reduced with every operation: even, on both sides
\* of the 64 elements one pass takes.
F16Lengths == {2, 64, 66, MaxN}

\* gpu.sum(arg), gpu.prod(arg), gpu.minimum(arg), gpu.maximum(arg) up to the
\* while loop of _reduce_op / _reduce_func
ReduceCall(op, dtype, n, custom) ==
    /\ red.pc = "idle"
    /\ SizeFits(n, dtype)
    /\ red' = [pc |-> IF custom THEN "thrown" ELSE "loop",
               error |-> IF custom THEN "custom strides" ELSE "",
               op |-> op, dtype |-> dtype, n |-> n, passes |-> 0, k |-> 0, v |-> <<>>,
               arg |-> [i \in 1..n |-> [v |-> InputValue(op, n, i), src |-> <<i>>]]]
    /\ UNCHANGED <<devvars, be, prng, call, nd, idx>>

\* One turn of the while loop of _reduce_op / _reduce_func up to the dispatch
\* of the kernel, whose invocations start with v = arg[id.x]
ReducePass ==
    /\ red.pc = "loop"
    /\ LET length == PassLength(Len(red.arg))
       IN red' = IF ~SizeFits(length, red.dtype)
                 THEN [red EXCEPT !.pc = "thrown",
                                  !.error = "Data Size must be multiple of 4 bytes"]
                 ELSE [red EXCEPT !.pc = "kernel",
                                  !.passes = @ + 1,
                                  !.k = 1,
                                  !.v = LaneInit(red.arg, length)]
    /\ UNCHANGED <<devvars, be, prng, call, nd, idx>>

\* The invocations of the kernel take one turn of their loops.
KernelTurn ==
    /\ red.pc = "kernel"
    /\ red.k * Len(red.v) < Len(red.arg)
    /\ red' = [red EXCEPT !.k = @ + 1,
                          !.v = LaneTurn(red.op, red.arg, Len(red.v), red.k, red.v)]
    /\ UNCHANGED <<devvars, be, prng, call, nd, idx>>

\* The loops are over: out[id.x] = v; the host returns out if (length === 1),
\* and goes round with arg = out otherwise.
KernelDone ==
    /\ red.pc = "kernel"
    /\ red.k * Len(red.v) >= Len(red.arg)
    /\ red' = [red EXCEPT !.pc = IF Len(red.v) = 1 THEN "returned" ELSE "loop",
                          !.arg = red.v,
                          !.v = <<>>]
    /\ UNCHANGED <<devvars, be, prng, call, nd, idx>>

NextReduce ==
    \/ \E op \in ReduceOps, n \in 1..MaxN : ReduceCall(op, "f32", n, FALSE)
    \/ \E dtype \in DTypes, n \in 1..MaxN : ReduceCall("+", dtype, n, FALSE)
    \/ \E op \in ReduceOps : ReduceCall(op, "f32", 300, FALSE)
    \/ \E op \in ReduceOps, n \in F16Lengths : ReduceCall(op, "f16", n, FALSE)
    \/ \E op \in ReduceOps : ReduceCall(op, "f32", 3, TRUE)
    \/ ReducePass
    \/ KernelTurn
    \/ KernelDone

SpecReduce == Init /\ [][NextReduce]_vars

(***************************************************************************)
(* SpecBackend: one GPUBackend, its caches, the buffers and the queue of   *)
(* its device, the host calls and the callbacks of the device's promises.  *)
(***************************************************************************)
LostMessage == "GPU has been lost"

\* throw new Error(msg) in the running call
Fail(b, msg) == [b EXCEPT !.err = msg]

\* GPUBackend.assertLost() throws
assertLost(b) == b.lost

\* device.createBuffer(...): the buffer is b.val
createBuffer(b, kind, shape) ==
    [b EXCEPT !.bufs = Append(@, [kind |-> kind, destroyed |-> FALSE,
                                  shape |-> shape, cpu_dirty |-> FALSE,
                                  gpu_dirty |-> FALSE, loading |-> 0]),
              !.val = Len(b.bufs) + 1]

\* device.queue.writeBuffer ("write") and device.queue.submit ("submit")
Enqueue(b, kind, refs) ==
    [b EXCEPT !.nsub = @ + 1,
              !.queue = Append(@, [sn |-> b.nsub + 1, kind |-> kind,
                                   refs |-> refs, call |-> b.ncalls])]

\* GPUBackend.Array({shape}): new NDArray(device, options)
NewNDArray(b, shape) ==
    IF assertLost(b) THEN Fail(b, LostMessage)
    ELSE createBuffer(b, "array", shape)

\* GPUBackend.ones({shape})
ones(b, shape) ==
    LET b1 == NewNDArray(b, shape)
    IN IF b1.err # "" THEN b1
       ELSE [b1 EXCEPT !.bufs[b1.val].cpu_dirty = TRUE]

\* NDArray.send() of array a; the send of a strides buffer is () => {}
send(b, a) ==
    IF ~b.bufs[a].cpu_dirty THEN b
    ELSE [Enqueue(b, "write", {a}) EXCEPT !.bufs[a].cpu_dirty = FALSE]

\* NDArray.load() of array a
load(b, a) ==
    IF ~b.bufs[a].gpu_dirty THEN b
    ELSE IF b.bufs[a].loading # 0 THEN [b EXCEPT !.val = b.bufs[a].loading]
    ELSE LET b1 == createBuffer(b, "staging", <<>>)
             b2 == Enqueue(b1, "submit", {a, b1.val})
         IN [b2 EXCEPT !.bufs[a].loading = b1.val]

\* The key of createLayout: "r" for read-only, "w" for the other modes.
LayoutKey(modes) ==
    [i \in DOMAIN modes |-> IF modes[i] = "read-only" THEN "r" ELSE "w"]

\* GPUBackend.createLayout(modes): the layout is b.val
createLayout(b, modes) ==
    IF assertLost(b) THEN Fail(b, LostMessage)
    ELSE LET key == LayoutKey(modes)
         IN IF \E e \in b.layout : e.key = key
            THEN [b EXCEPT !.val = (CHOOSE e \in b.layout : e.key = key).id]
            ELSE [b EXCEPT !.layouts = Append(@, key),
                           !.layout = @ \cup {[key |-> key,
                                               id |-> Len(b.layouts) + 1]},
                           !.val = Len(b.layouts) + 1]

\* createShader without `if(this.shader.has(code)){ return ...; }`
createShaderMut(b, code) ==
    IF assertLost(b) THEN Fail(b, LostMessage)
    ELSE [b EXCEPT !.compiled = Append(@, code),
                   !.shader = {e \in @ : e.code # code}
                                \cup {[code |-> code, id |-> Len(b.compiled) + 1]},
                   !.val = Len(b.compiled) + 1]

\* GPUBackend.createShader(code): the shader module is b.val
createShader(b, code) ==
    IF assertLost(b) THEN Fail(b, LostMessage)
    ELSE IF \E e \in b.shader : e.code = code
         THEN [b EXCEPT !.val = (CHOOSE e \in b.shader : e.code = code).id]
         ELSE [b EXCEPT !.compiled = Append(@, code),
                        !.shader = @ \cup {[code |-> code,
                                            id |-> Len(b.compiled) + 1]},
                        !.val = Len(b.compiled) + 1]

\* The source text of a program: the template and what it was given.
Code(template, op, length) ==
    [template |-> template, op |-> op, length |-> length]

RECURSIVE ModeLoop(_, _)
\* for(const {array, mode} of specs){ switch(mode){ ... } } of execute
ModeLoop(b, specs) ==
    IF specs = <<>> THEN b
    ELSE LET a == Head(specs).array
             mode == Head(specs).mode
             b1 == IF mode = "read-only" THEN send(b, a)
                   ELSE IF mode = "write-only"
                        THEN [b EXCEPT !.bufs[a].cpu_dirty = FALSE,
                                       !.bufs[a].gpu_dirty = TRUE]
                   ELSE [send(b, a) EXCEPT !.bufs[a].gpu_dirty = TRUE]
         IN ModeLoop(b1, Tail(specs))

\* GPUBackend.execute(shader, specs, dispatch, constants)
execute(b, shader, specs, constants) ==
    LET b1 == ModeLoop(b, specs)
        b2 == createLayout(b1, [i \in DOMAIN specs |-> specs[i].mode])
    IN IF b2.err # "" THEN b2
       ELSE LET b3 == IF constants THEN b2
                      ELSE [b2 EXCEPT !.pipe = @ \cup {shader}]
            IN Enqueue(b3, "submit", {specs[i].array : i \in DOMAIN specs})

\* GPUBackend.#stridesBuffer(strides): the buffer is b.val
stridesBuffer(b) ==
    IF assertLost(b) THEN Fail(b, LostMessage)
    ELSE LET b1 == createBuffer(b, "strides", <<>>)
         IN [Enqueue(b1, "write", {b1.val}) EXCEPT !.val = b1.val]

\* GPUBackend._destroyOnDone(...arrays)
destroyOnDone(b, arrays) ==
    [b EXCEPT !.waits = @ \cup {[upto |-> b.nsub, arrays |-> arrays]}]

ReadOnly(a) == [array |-> a, mode |-> "read-only"]
WriteOnly(a) == [array |-> a, mode |-> "write-only"]

\* GPUBackend._vector_op(op, lhs, rhs) on arrays: the output is b.val
vector_op(b, op, lhs, rhs) ==
    LET shape == broadcastShapes(<<b.bufs[lhs].shape, b.bufs[rhs].shape>>)
    IN IF ~shape.ok THEN Fail(b, shape.error)
       ELSE LET b0 == NewNDArray(b, shape.val)
                out == b0.val
                use_strides == ~equalShapes(<<b.bufs[lhs].shape,
                                              b.bufs[rhs].shape, shape.val>>)
                b1 == stridesBuffer(b0)
                b2 == stridesBuffer(b1)
                b3 == stridesBuffer(b2)
                b4 == IF use_strides THEN b3 ELSE b0
                b5 == createShader(b4, Code(IF use_strides
                                            THEN "vector_op_indirect"
                                            ELSE "vector_op", op, 0))
                specs == <<ReadOnly(lhs), ReadOnly(rhs), WriteOnly(out)>>
                           \o (IF use_strides
                               THEN <<ReadOnly(b1.val), ReadOnly(b2.val),
                                      ReadOnly(b3.val)>>
                               ELSE <<>>)
                b6 == execute(b5, b5.val, specs, FALSE)
                b7 == destroyOnDone(b6, IF use_strides
                                        THEN {b1.val, b2.val, b3.val} ELSE {})
            IN IF b0.err # "" THEN b0
               ELSE IF b4.err # "" THEN b4
               ELSE IF b5.err # "" THEN b5
               ELSE IF b6.err # "" THEN b6
               ELSE [b7 EXCEPT !.val = out]

\* GPUBackend._func2(f, arg0, arg1) on arrays: the output is b.val
func2_op(b, f, arg0, arg1) ==
    LET shape == broadcastShapes(<<b.bufs[arg0].shape, b.bufs[arg1].shape>>)
    IN IF ~shape.ok THEN Fail(b, shape.error)
       ELSE LET b0 == NewNDArray(b, shape.val)
                out == b0.val
                use_strides == ~equalShapes(<<b.bufs[arg0].shape,
                                              b.bufs[arg1].shape, shape.val>>)
                b1 == stridesBuffer(b0)
                b2 == stridesBuffer(b1)
                b3 == stridesBuffer(b2)
                b5 == createShader(b0, Code("func2", f, 0))
                b6 == execute(b5, b5.val,
                              <<ReadOnly(arg0), ReadOnly(arg1), WriteOnly(out)>>,
                              FALSE)
            IN IF b0.err # "" THEN b0
               ELSE IF use_strides
                    THEN \* func2_indirect(...shader_args) throws
                         IF b3.err # "" THEN b3 ELSE Fail(b3, TypeError)
               ELSE IF b5.err # "" THEN b5
               ELSE IF b6.err # "" THEN b6
               ELSE [destroyOnDone(b6, {}) EXCEPT !.val = out]

\* this.Array({ shape: length, dtype }) in a reduction: the array of a pass
\* that is not the last is "intermediate", no caller ever holds it.
PassArray(b, length) ==
    LET b0 == NewNDArray(b, <<length>>)
    IN IF b0.err # "" \/ length = 1 THEN b0
       ELSE [b0 EXCEPT !.bufs[b0.val].kind = "intermediate"]

RECURSIVE reduce_loop(_, _, _)
\* The while(true) of GPUBackend._reduce_op(op, arg): the result is b.val
reduce_loop(b, op, arg) ==
    LET length == PassLength(Product(b.bufs[arg].shape))
        b0 == PassArray(b, length)
        out == b0.val
        b1 == createShader(b0, Code("reduce_op", op, length))
        b2 == execute(b1, b1.val, <<ReadOnly(arg), WriteOnly(out)>>, FALSE)
    IN IF b0.err # "" THEN b0
       ELSE IF b1.err # "" THEN b1
       ELSE IF b2.err # "" THEN b2
       ELSE IF length = 1 THEN [b2 EXCEPT !.val = out]
       ELSE reduce_loop(destroyOnDone(b2, {out}), op, out)

\* What a host call did: the error it threw, the value it returned, the
\* buffers it created and the operations it gave to the queue.
Outcome(fn, b) ==
    [fn |-> fn,
     threw |-> b.err,
     ret |-> IF b.err = "" THEN b.val ELSE 0,
     created |-> Len(b.bufs) - Len(be.bufs),
     queued |-> b.nsub - be.nsub,
     submits |-> Cardinality({i \in DOMAIN b.queue :
                                 /\ b.queue[i].sn > be.nsub
                                 /\ b.queue[i].kind = "submit"})]

\* The backend as a host call finds it.
Begin == [be EXCEPT !.ncalls = @ + 1, !.err = "", !.val = 0]

\* The host makes a call: the queue is not longer than the model follows.
HostCalls == be.ncalls < MaxCalls /\ Len(be.queue) <= MaxPending

\* A host call that took the backend to b has returned or thrown.
Return(fn, b) ==
    /\ be' = [b EXCEPT !.last = Outcome(fn, b), !.err = "", !.val = 0]
    /\ UNCHANGED <<devvars, call, nd, idx, red, prng>>

\* The arrays the host holds: created, not destroyed.
Live(a) == a \in DOMAIN be.bufs /\ be.bufs[a].kind = "array"
              /\ ~be.bufs[a].destroyed

BArrays == {a \in DOMAIN be.bufs : Live(a)}

\* gpu.ones({shape})
BOnes(shape) ==
    /\ HostCalls
    /\ Return("ones", ones(Begin, shape))

\* a.send()
BSend(a) ==
    /\ HostCalls
    /\ Return("send", send(Begin, a))

\* a.load()
BLoad(a) ==
    /\ HostCalls
    /\ Return("load", load(Begin, a))

\* gpu.createShader(code)
BCreateShader(code) ==
    /\ HostCalls
    /\ Return("createShader", createShader(Begin, code))

\* gpu.createLayout(modes)
BCreateLayout(modes) ==
    /\ HostCalls
    /\ Return("createLayout", createLayout(Begin, modes))

\* gpu.execute(shader, [{array: a, mode: "read-only"}, {array: o, mode:
\* "write-only"}], dispatch)
BExecute(shader, a, o) ==
    /\ HostCalls
    /\ Return("execute",
              execute(Begin, shader, <<ReadOnly(a), WriteOnly(o)>>, FALSE))

\* gpu.add(lhs, rhs)
BAdd(lhs, rhs) ==
    /\ HostCalls
    /\ Return("add", vector_op(Begin, "+", lhs, rhs))

\* gpu.max(arg0, arg1)
BMax(arg0, arg1) ==
    /\ HostCalls
    /\ Return("max", func2_op(Begin, "max", arg0, arg1))

\* gpu.sum(arg)
BSum(arg) ==
    /\ HostCalls
    /\ Return("sum", reduce_loop(Begin, "+", arg))

\* The device completes the operation at the head of its queue.
QueueDone ==
    /\ be.queue # <<>>
    /\ be' = [be EXCEPT !.queue = Tail(@)]
    /\ UNCHANGED <<devvars, call, nd, idx, red, prng>>

\* onSubmittedWorkDone() resolves at once, whatever the queue holds
SubmittedWorkDoneMut(upto) == TRUE

\* The promise of an onSubmittedWorkDone() called after `upto` operations
\* resolves: each of those operations has completed.
SubmittedWorkDone(upto) ==
    \A i \in DOMAIN be.queue : be.queue[i].sn > upto

\* The callback of _destroyOnDone: arrays.forEach(a => a?.gpu.destroy())
WorkDone(w) ==
    /\ w \in be.waits
    /\ SubmittedWorkDone(w.upto)
    /\ be' = [be EXCEPT !.waits = @ \ {w},
                        !.bufs = [i \in DOMAIN @ |->
                                    IF i \in w.arrays
                                    THEN [@[i] EXCEPT !.destroyed = TRUE]
                                    ELSE @[i]]]
    /\ UNCHANGED <<devvars, call, nd, idx, red, prng>>

\* The callback of staging.mapAsync(...).then(...) in load() of array a: the
\* copy into the staging buffer has completed.
BLoadDone(a) ==
    /\ a \in DOMAIN be.bufs
    /\ be.bufs[a].loading # 0
    /\ \A i \in DOMAIN be.queue : be.bufs[a].loading \notin be.queue[i].refs
    /\ be' = [be EXCEPT !.bufs = [i \in DOMAIN @ |->
                                    IF i = a
                                    THEN [@[i] EXCEPT !.gpu_dirty = FALSE,
                                                      !.loading = 0]
                                    ELSE IF i = be.bufs[a].loading
                                    THEN [@[i] EXCEPT !.destroyed = TRUE]
                                    ELSE @[i]]]
    /\ UNCHANGED <<devvars, call, nd, idx, red, prng>>

\* The callback of this.device.lost.then(...) in the constructor
DeviceLost ==
    /\ ~be.lost
    /\ be' = [be EXCEPT !.lost = TRUE]
    /\ UNCHANGED <<devvars, call, nd, idx, red, prng>>

\* The shapes of the arrays of SpecBackend, the program a caller compiles and
\* the modes a caller asks a layout for.
BShapes == {<<1>>, <<MaxN>>}
UserCode == Code("user", "", 0)
UserModes == {<<"read-only", "write-only">>, <<"read-only", "read-write">>}

NextBackend ==
    \/ \E shape \in BShapes : BOnes(shape)
    \/ \E a \in BArrays : BSend(a)
    \/ \E a \in BArrays : BLoad(a)
    \/ \E a \in BArrays : BLoadDone(a)
    \/ BCreateShader(UserCode)
    \/ \E modes \in UserModes : BCreateLayout(modes)
    \/ \E e \in be.shader : \E a, o \in BArrays :
          a # o /\ BExecute(e.id, a, o)
    \/ \E lhs, rhs \in BArrays : BAdd(lhs, rhs)
    \/ \E arg0, arg1 \in BArrays : BMax(arg0, arg1)
    \/ \E arg \in BArrays : BSum(arg)
    \/ QueueDone
    \/ \E w \in be.waits : WorkDone(w)
    \/ DeviceLost

SpecBackend == Init /\ [][NextBackend]_vars

\* The device completes every operation given to its queue and the promise
\* of every onSubmittedWorkDone() whose work has completed resolves; the host
\* and the loss of the device are under no obligation.
SpecBackendFair ==
    /\ SpecBackend
    /\ WF_vars(QueueDone)
    /\ WF_vars(\E w \in be.waits : WorkDone(w))

(***************************************************************************)
(* SpecPRNG: Xoshiro128pp generators on one GPUBackend.  A u32 is a pair   *)
(* <<high half, low half>> of 16-bit numbers and a BigInt is a little-     *)
(* endian sequence of NLimbs 12-bit limbs, so that no intermediate value   *)
(* leaves the range of TLC's integers.                                     *)
(***************************************************************************)
W16 == 65536
Limb == 4096
NLimbs == 17

\* The value of an expression evaluated before it is used: x \in {e} binds
\* x to the value of e.
Only(S) == CHOOSE x \in S : TRUE

RECURSIVE Xor(_, _)
\* a ^ b on non-negative integers
Xor(a, b) ==
    IF a = 0 THEN b
    ELSE IF b = 0 THEN a
    ELSE ((a + b) % 2) + 2 * Xor(a \div 2, b \div 2)

\* i ^ j for i, j < 16 is XorTable[i + 1][j + 1]; the table is a sequence of
\* sequences.
XorRow(i) == [j \in 1..16 |-> Xor(i, j - 1)] \o <<>>
XorTable == [i \in 1..16 |-> XorRow(i - 1)] \o <<>>
\* a ^ b on 16-bit numbers, four bits at a time
Xor16(a, b) ==
    XorTable[(a % 16) + 1][(b % 16) + 1]
        + 16 * XorTable[((a \div 16) % 16) + 1][((b \div 16) % 16) + 1]
        + 256 * XorTable[((a \div 256) % 16) + 1][((b \div 256) % 16) + 1]
        + 4096 * XorTable[(a \div 4096) + 1][(b \div 4096) + 1]
\* 2^k for k = 0..16
TwoTo(k) ==
    <<1, 2, 4, 8, 16, 32, 64, 128, 256, 512, 1024, 2048, 4096, 8192, 16384,
      32768, 65536>>[k + 1]

U32(hi, lo) == <<hi, lo>>
Zero32 == U32(0, 0)
Xor32(x, y) == U32(Xor16(x[1], y[1]), Xor16(x[2], y[2]))
\* x + y, wrapping at 2^32
Add32(x, y) ==
    LET lo == x[2] + y[2]
    IN  U32((x[1] + y[1] + (lo \div W16)) % W16, lo % W16)
\* x << k and x >> k of WGSL on u32
Shl32(x, k) ==
    IF k >= 16 THEN U32((x[2] * TwoTo(k - 16)) % W16, 0)
    ELSE U32(((x[1] * TwoTo(k)) + (x[2] \div TwoTo(16 - k))) % W16,
             (x[2] * TwoTo(k)) % W16)
Shr32(x, k) ==
    IF k >= 16 THEN U32(0, x[1] \div TwoTo(k - 16))
    ELSE U32(x[1] \div TwoTo(k),
             (x[2] \div TwoTo(k)) + ((x[1] % TwoTo(k)) * TwoTo(16 - k)))
\* x | y: x | y = (x ^ y) + (x & y) and x + y = (x ^ y) + 2 (x & y)
Or16(a, b) == Xor16(a, b) + ((a + b - Xor16(a, b)) \div 2)
Or32(x, y) == U32(Or16(x[1], y[1]), Or16(x[2], y[2]))
Bit32(x, b) ==
    IF b >= 16 THEN (x[1] \div TwoTo(b - 16)) % 2 ELSE (x[2] \div TwoTo(b)) % 2

\* fn rotl(x, k)
rotl(x, k) == Or32(Shl32(x, k), Shr32(x, 32 - k))
\* fn toFloat(x): the float in [1, 2) whose mantissa is x >> 9, less 1.0, is
\* (x >> 9) / 2^23; the model keeps the numerator.
toFloat(x) == Shr32(x, 9)

Vec4(a, b, c, d) == <<a, b, c, d>>
ZeroVec4 == Vec4(Zero32, Zero32, Zero32, Zero32)
XorVec4(s, t) ==
    Vec4(Xor32(s[1], t[1]), Xor32(s[2], t[2]), Xor32(s[3], t[3]), Xor32(s[4], t[4]))

\* _xoshiro128pp_out: rotl(s[0] + s[3], 7) + s[0], through toFloat for f32
xoshiro128pp_out(s, type) ==
    LET x == Add32(rotl(Add32(s[1], s[4]), 7), s[1])
    IN  IF type = "f32" THEN toFloat(x) ELSE x

\* The state update of fn next(i) on the vector s it read.
Advance(s) ==
    LET t  == Shl32(s[2], 9)
        s2 == Xor32(s[3], s[1])
        s3 == Xor32(s[4], s[2])
        s1 == Xor32(s[2], s2)
        s0 == Xor32(s[1], s3)
    IN  Vec4(s0, s1, Xor32(s2, t), rotl(s3, 11))

\* An access of state[i] beyond arrayLength(&state) is out of bounds: WGSL
\* lets a load return zero or the value of an element of the buffer and lets
\* a store be dropped or hit an element of the buffer.  One device does one
\* of these throughout a kernel.
OOB == {"zero", "clamp"}
LoadState(state, i, oob) ==
    IF i < Len(state) THEN state[i + 1]
    ELSE IF oob = "zero" THEN ZeroVec4 ELSE state[Len(state)]
StoreState(state, i, s, oob) ==
    IF i < Len(state) THEN [state EXCEPT ![i + 1] = s]
    ELSE IF oob = "zero" THEN state ELSE [state EXCEPT ![Len(state)] = s]

\* fn next(i) of the init kernel, which has no out binding
next(state, i, oob) == StoreState(state, i, Advance(LoadState(state, i, oob)), oob)

JUMP == <<U32(34660, 11), U32(62786, 53971), U32(28576, 13763), U32(30706, 56155)>>

\* One iteration of the inner loop of fn jump: the loop variable i of the
\* outer loop hides the parameter, so the iteration reads and advances
\* state[i] for i = 0..3.
JumpBody(k, m) ==
    LET i == k \div 32
        b == k % 32
        s == IF Bit32(JUMP[i + 1], b) # 0
             THEN XorVec4(m.s, LoadState(m.state, i, m.oob)) ELSE m.s
    IN  [state |-> next(m.state, i, m.oob), s |-> s, oob |-> m.oob]

RECURSIVE JumpLoop(_, _, _)
\* iterations lo..hi of the two loops of fn jump, in order
JumpLoop(lo, hi, m) ==
    IF lo = hi THEN JumpBody(lo, m)
    ELSE LET mid == (lo + hi) \div 2
         IN  Only({JumpLoop(mid + 1, hi, x) : x \in {JumpLoop(lo, mid, m)}})

\* fn jump(i): after the loops, state[i] = s with the parameter i
jump(state, i, oob) ==
    Only({StoreState(m.state, i, m.s, oob) :
            m \in {JumpLoop(0, 127, [state |-> state, s |-> ZeroVec4, oob |-> oob])}})

RECURSIVE InitMain(_, _, _)
\* fn main of xoshiro128pp_init from row i on
InitMain(state, i, oob) ==
    IF i >= Len(state) THEN state
    ELSE Only({InitMain(x, i + 1, oob) :
                 x \in {jump([state EXCEPT ![i + 1] = state[i]], i, oob)}})
xoshiro128pp_init(state, oob) == InitMain(state, 1, oob)

RECURSIVE OutRows(_, _, _)
RECURSIVE AdvanceRows(_, _)
\* fn main of xoshiro128pp: invocation id.x runs next(id.x), which writes
\* out[id.x] and advances state[id.x]; these are the first n elements.
OutRows(state, n, type) ==
    IF n = 0 THEN <<>>
    ELSE Append(OutRows(state, n - 1, type), xoshiro128pp_out(state[n], type))
AdvanceRows(state, n) ==
    IF n = 0 THEN <<>> ELSE Append(AdvanceRows(state, n - 1), Advance(state[n]))

\* BigInt arithmetic of the seed expansion.
RECURSIVE BigOf(_, _)
BigOf(n, len) == IF len = 0 THEN <<>> ELSE <<n % Limb>> \o BigOf(n \div Limb, len - 1)
BigPad(limbs) == limbs \o BigOf(0, NLimbs - Len(limbs))
LimbAt(a, i) == IF i <= Len(a) THEN a[i] ELSE 0
RECURSIVE Carry(_, _, _)
\* the limbs of the number whose columns from the i-th on are cols
Carry(cols, i, c) ==
    IF i > NLimbs THEN <<>>
    ELSE LET v == cols[i] + c IN <<v % Limb>> \o Carry(cols, i + 1, v \div Limb)
RECURSIVE Sums(_, _, _)
Sums(a, b, n) == IF n = 0 THEN <<>> ELSE Append(Sums(a, b, n - 1), a[n] + b[n])
BigAdd(a, b) == Carry(Sums(a, b, NLimbs), 1, 0)
RECURSIVE XorLimbs(_, _, _)
XorLimbs(a, b, n) ==
    IF n = 0 THEN <<>> ELSE Append(XorLimbs(a, b, n - 1), Xor16(a[n], b[n]))
BigXor(a, b) == XorLimbs(a, b, NLimbs)
RECURSIVE ShrLimbs(_, _, _, _)
\* limb i of a >> (12 q + r) holds the high bits of limb i + q and the low
\* r bits of limb i + q + 1
ShrLimbs(a, q, r, n) ==
    IF n = 0 THEN <<>>
    ELSE Append(ShrLimbs(a, q, r, n - 1),
                (LimbAt(a, n + q) \div Pow2(r))
                    + ((LimbAt(a, n + q + 1) % Pow2(r)) * Pow2(12 - r)))
BigShr(a, k) == ShrLimbs(a, k \div 12, k % 12, NLimbs)
\* column k of a * b for a multiplier b of at most six limbs: the sum of
\* a[k + 1 - j] * b[j] over j = 1..6
Term(a, b, k, j) == IF k + 1 - j >= 1 THEN a[k + 1 - j] * b[j] ELSE 0
Column(a, b, k) ==
    Term(a, b, k, 1) + Term(a, b, k, 2) + Term(a, b, k, 3)
        + Term(a, b, k, 4) + Term(a, b, k, 5) + Term(a, b, k, 6)
RECURSIVE Columns(_, _, _)
Columns(a, b, n) ==
    IF n = 0 THEN <<>> ELSE Append(Columns(a, b, n - 1), Column(a, b, n))
BigMul(a, b) == Carry(Columns(a, b, NLimbs), 1, 0)
\* a & (2^64 - 1) and a & (2^32 - 1)
BigMask64(a) == BigPad(<<a[1], a[2], a[3], a[4], a[5], a[6] % 16>>)
BigLow32(a) == U32((a[2] \div 16) + ((a[3] % 256) * 256), a[1] + ((a[2] % 16) * Limb))

Golden == BigPad(<<3093, 1191, 2431, 1947, 3639, 9>>)   \* 0x9e3779b97f4a7c15
Mix1   == BigPad(<<1465, 3662, 3356, 1142, 3928, 11>>)  \* 0xbf58476d1ce4e5b9
Mix2   == BigPad(<<491, 785, 2835, 1179, 1232, 9>>)     \* 0x94d049bb133111eb

\* z ^ (z >> k)
XorShift(z, k) == Only({BigXor(z, x) : x \in {BigShr(z, k)}})
\* The callback of Array.from on the seed it has advanced: z is mixed and
\* the low 32 bits are the state word.
Mix(seed) ==
    Only({BigLow32(XorShift(z2, 31)) :
            z2 \in {BigMul(y1, Mix2) :
                      y1 \in {XorShift(z1, 27) :
                                z1 \in {BigMul(y0, Mix1) :
                                          y0 \in {XorShift(z, 30) : z \in {seed}}}}}})
RECURSIVE SeedsFrom(_, _)
\* the values seed takes in the n calls of the callback: seed += Golden
SeedsFrom(seed, n) ==
    IF n = 0 THEN <<>>
    ELSE Only({<<t>> \o SeedsFrom(t, n - 1) : t \in {BigAdd(seed, Golden)}})
\* SplitMix64: the four words of the first row of the state
SplitMix64(seed) ==
    Only({Vec4(Mix(q[1]), Mix(q[2]), Mix(q[3]), Mix(q[4])) :
            q \in {SeedsFrom(BigMask64(BigOf(seed, NLimbs)), 4)}})

\* a call without the dtype argument
NoDtype == "undefined"

MaxGens == 2        \* generators constructed in one behaviour of SpecPRNG
MaxDraws == 3       \* calls of next and normal in one behaviour of SpecPRNG

\* The seeds and sizes of the generators and the types a caller asks for.
Seeds == {20}
Sizes == {1, 2, 4}
NextDtypes == {NoDtype, "u32", "f32"}
NormalDtypes == {NoDtype, "f32", "f16"}

ReadWrite(a) == [array |-> a, mode |-> "read-write"]

RECURSIVE ZeroRows(_)
\* rows of a fresh Uint32Array
ZeroRows(n) == IF n = 0 THEN <<>> ELSE Append(ZeroRows(n - 1), ZeroVec4)

\* this.state.cpu.set(state): the four words are row 0 of the size x 4 array
SeedRows(seed, size) == <<SplitMix64(seed)>> \o ZeroRows(size - 1)

\* What the init kernel leaves in the state buffer of each generator of the
\* model, computed once.
InitStates ==
    {[seed |-> seed, size |-> size, oob |-> oob,
      rows |-> xoshiro128pp_init(SeedRows(seed, size), oob)] :
        seed \in Seeds, size \in Sizes, oob \in OOB}
InitState(seed, size, oob) ==
    (CHOOSE e \in InitStates :
        e.seed = seed /\ e.size = size /\ e.oob = oob).rows

\* A call on a generator works on the backend b and the generator g.
Session(b, g) == [b |-> b, g |-> g]

\* new Xoshiro128pp(backend, {seed, size}) on a device that treats the out of
\* bounds accesses of the init kernel as oob.  rows is what the queued
\* kernels leave in the state buffer: the queue runs them in order.  outs
\* and returned record what next() and normal() gave the caller and asked
\* the types normal() was called with.
Xoshiro128pp(b, seed, size, oob) ==
    LET b0 == NewNDArray(b, <<size, 4>>)
        state == Len(b.bufs) + 1
        b1 == createShader([b0 EXCEPT !.bufs[state].cpu_dirty = TRUE],
                           Code("xoshiro128pp_init", "", 0))
        g == [seed |-> seed, size |-> size, state |-> state,
              rows |-> InitState(seed, size, oob),
              rng |-> 0, rng_dtype |-> "", outs |-> <<>>, returned |-> <<>>,
              asked |-> <<>>]
    IN \* this.lost does not change during the call: the first assertLost,
       \* in backend.Array, throws or none does
       IF assertLost(b) THEN Session(Fail(b, LostMessage), g)
       ELSE Session(execute(b1, b1.val, <<ReadWrite(state)>>, FALSE), g)

IncompatibleDtype == "Incompatible dtype"

\* dtype ??= "u32"
NextDtype(dtype0) == IF dtype0 = NoDtype THEN "u32" ELSE dtype0

\* Xoshiro128pp.next(dtype): the output array is b.val
Xoshiro128pp_next(m, dtype0) ==
    LET dtype == NextDtype(dtype0)
        size == IF m.g.size < sizeX THEN m.g.size ELSE sizeX
        out == Len(m.b.bufs) + 1
        b1 == createShader(NewNDArray(m.b, <<m.g.size>>),
                           Code("xoshiro128pp", dtype, size))
        b2 == execute(b1, b1.val, <<ReadWrite(m.g.state), WriteOnly(out)>>, FALSE)
        g == [m.g EXCEPT !.rows = AdvanceRows(m.g.rows, m.g.size),
                         !.outs = Append(@, [id |-> out, dtype |-> dtype,
                                             data |-> OutRows(m.g.rows, m.g.size, dtype)])]
    IN IF dtype \notin {"u32", "f32"} THEN Session(Fail(m.b, IncompatibleDtype), m.g)
       ELSE IF assertLost(m.b) THEN Session(Fail(m.b, LostMessage), m.g)
       ELSE Session([b2 EXCEPT !.val = out], g)

\* dtype ??= "f32"
NormalDtype(dtype0) == IF dtype0 = NoDtype THEN "f32" ELSE dtype0

\* The rest of PRNG.normal(dtype) once u and v are drawn: mv is the session
\* after the second next().
BoxMuller(u, v, mv, dtype) ==
    LET r1 == Len(mv.b.bufs) + 1
        r2 == Len(mv.b.bufs) + 2
        b3 == createShader(NewNDArray(NewNDArray(mv.b, <<mv.g.size>>),
                                      <<mv.g.size>>),
                           Code("box_muller", dtype, sizeX))
        b4 == execute(b3, b3.val,
                      <<ReadOnly(u), ReadOnly(v), WriteOnly(r1), WriteOnly(r2)>>,
                      FALSE)
    IN Session([destroyOnDone(b4, {u, v}) EXCEPT !.val = r1],
               [mv.g EXCEPT !.rng = r2, !.rng_dtype = dtype])

\* The second next() of PRNG.normal(dtype): mu is the session after the
\* first one, which made the array u.
SecondNext(mu, dtype) ==
    IF mu.b.err # "" THEN mu
    ELSE BoxMuller(mu.b.val, Len(mu.b.bufs) + 1, Xoshiro128pp_next(mu, dtype), dtype)

\* PRNG.normal(dtype): the returned array is b.val.  When the first next()
\* returns, the second one does as well.
normal(m, dtype0) ==
    IF m.g.rng # 0 /\ m.g.rng_dtype = NormalDtype(dtype0)
    THEN Session([m.b EXCEPT !.val = m.g.rng],
                 [m.g EXCEPT !.rng = 0, !.rng_dtype = ""])
    ELSE SecondNext(Xoshiro128pp_next(m, NormalDtype(dtype0)), NormalDtype(dtype0))

\* The host calls while the queue is not longer than the model follows.
PRNGCalls == Len(be.queue) <= MaxPending
\* The host draws from a generator.
PRNGDraws == PRNGCalls /\ be.ncalls < MaxGens + MaxDraws

\* A call on generator i that took the session to m has returned or thrown.
PReturn(fn, i, m, g) ==
    /\ be' = [m.b EXCEPT !.last = Outcome(fn, m.b), !.err = "", !.val = 0]
    /\ prng' = [prng EXCEPT ![i] = g]
    /\ UNCHANGED <<devvars, call, nd, idx, red>>

\* g = new gpu.Xoshiro128pp({seed, size})
NewXoshiro(seed, size, oob) ==
    /\ PRNGCalls
    /\ Len(prng) < MaxGens
    /\ \E m \in {Xoshiro128pp(Begin, seed, size, oob)} :
          /\ be' = [m.b EXCEPT !.last = Outcome("Xoshiro128pp", m.b),
                               !.err = "", !.val = 0]
          /\ prng' = Append(prng, m.g)
    /\ UNCHANGED <<devvars, call, nd, idx, red>>

\* g.next(dtype)
PNext(i, dtype) ==
    /\ PRNGDraws
    /\ \E m \in {Xoshiro128pp_next(Session(Begin, prng[i]), dtype)} :
          PReturn("next", i, m, m.g)

\* g.normal(dtype)
PNormal(i, dtype) ==
    /\ PRNGDraws
    /\ \E m \in {normal(Session(Begin, prng[i]), dtype)} :
          PReturn("normal", i, m,
                  [m.g EXCEPT !.asked = Append(@, NormalDtype(dtype)),
                              !.returned = IF m.b.err = "" THEN Append(@, m.b.val)
                                           ELSE @])

NextPRNG ==
    \/ \E seed \in Seeds, size \in Sizes, oob \in OOB : NewXoshiro(seed, size, oob)
    \/ \E i \in DOMAIN prng, dtype \in NextDtypes : PNext(i, dtype)
    \/ \E i \in DOMAIN prng, dtype \in NormalDtypes : PNormal(i, dtype)
    \/ QueueDone
    \/ \E w \in be.waits : WorkDone(w)

SpecPRNG == Init /\ [][NextPRNG]_vars

(***************************************************************************)
(* Claims about Spec.                                                      *)
(***************************************************************************)

\* C1: in every reachable state no array has cpu_dirty and gpu_dirty both true.
C1_NeverBothDirty ==
    \A a \in Arrays : ~(cpu_dirty[a] /\ gpu_dirty[a])

\* C2: when the operation returned by a load() that was called after a kernel
\* writing the array was submitted completes, the host buffer holds that
\* kernel's output.
C2_LoadObservesKernel ==
    \A a \in Arrays :
        load_result[a].want # 0
            => load_result[a].got = Fill(KernelOut(load_result[a].want))

StagingOf(a) == {s \in staging : s.a = a}
CopiesQueued(q, a) ==
    Cardinality({i \in DOMAIN q : q[i].type = "copy" /\ q[i].a = a})
WritesQueued(q, a) ==
    Cardinality({i \in DOMAIN q : q[i].type = "write" /\ q[i].a = a})

\* An array has at most one staging buffer and one queued readback copy, and
\* a pending load operation exactly while its staging buffer exists.
C3_OneStagingPerArray ==
    \A a \in Arrays :
        /\ Cardinality(StagingOf(a)) <= 1
        /\ CopiesQueued(queue, a) <= 1
        /\ (load_promise[a] # 0 <=> StagingOf(a) # {})

\* A load() of an array that is not gpu_dirty, or whose load is pending, creates
\* and submits nothing and returns the pending operation, if any.
C3_LoadReusesPending ==
    \A a \in Arrays :
        (Load(a) /\ (~gpu_dirty[a] \/ load_promise[a] # 0))
            => /\ staging' = staging
               /\ queue' = queue
               /\ nstaging' = nstaging
               /\ load_promise' = load_promise
               /\ ret'.p = (IF gpu_dirty[a] THEN load_promise[a] ELSE 0)

\* C3: each array has at most one staging buffer and at most one readback copy
\* in flight; a load() called while an earlier load of the array is pending
\* creates no staging buffer, submits no copy and returns the pending
\* operation; a load() called with gpu_dirty false submits nothing.
C3_SingleReadback == [](C3_OneStagingPerArray) /\ [][C3_LoadReusesPending]_vars

\* C3 witness: a load() has just returned the operation of an earlier load
\* whose staging buffer still exists.
C3_Witness ==
    \E a \in Arrays :
        /\ ret.path = "pending"
        /\ ret.p = load_promise[a]
        /\ \E s \in StagingOf(a) : s.id = ret.p

\* The flags and the queue after execute(shader, specs, ...), binding by binding.
C10_Post(specs) ==
    \A i \in DOMAIN specs :
        LET a == specs[i].array
        IN IF specs[i].mode = "read-only"
           THEN /\ cpu_dirty'[a] = FALSE
                /\ gpu_dirty'[a] = gpu_dirty[a]
                /\ WritesQueued(queue', a) - WritesQueued(queue, a)
                     = (IF cpu_dirty[a] THEN 1 ELSE 0)
           ELSE /\ gpu_dirty'[a] = TRUE
                /\ cpu_dirty'[a] = FALSE

C20_SendPost(a) ==
    /\ cpu_dirty'[a] = FALSE
    /\ queue' = (IF cpu_dirty[a]
                 THEN Append(queue, [type |-> "write", a |-> a, data |-> cpu[a]])
                 ELSE queue)

\* C20: send() writes the whole host buffer to the device buffer iff cpu_dirty
\* is true and leaves cpu_dirty false (so a send() directly after a send()
\* writes nothing); set(), ones(), full() and arange() leave cpu_dirty true and
\* Array() returns an array with cpu_dirty false.
C20_SendIffDirty ==
    [][\A a \in Arrays :
         /\ Send(a) => C20_SendPost(a)
         /\ ((\/ Ones(a)
              \/ Arange(a)
              \/ \E v \in HostVals : Full(a, v) \/ SetAll(a, Fill(v))
              \/ \E v \in HostVals, i \in Cells : SetAt(a, v, i))
               => cpu_dirty'[a])
         /\ Array(a) => ~cpu_dirty'[a]]_vars

\* C20 witness: send() has just written a cpu_dirty array: the write is the
\* only command in the queue, no kernel was submitted, cpu_dirty is false.
C20_Witness ==
    \E a \in Arrays :
        /\ allocated[a]
        /\ ~cpu_dirty[a]
        /\ nkernels = 0
        /\ queue = <<[type |-> "write", a |-> a, data |-> cpu[a]]>>

\* C24: whenever an array has cpu_dirty false, gpu_dirty false and no load
\* pending, its host buffer holds what its device buffer holds once the
\* submitted work has completed.
C24_HostDeviceCoherent ==
    \A a \in Arrays :
        (allocated[a] /\ ~cpu_dirty[a] /\ ~gpu_dirty[a] /\ load_promise[a] = 0)
            => cpu[a] = DevApply(queue, a, gpu[a])

\* The values set() wrote that the host buffer of a must still hold.
C25_Kept(a) ==
    \A i \in Cells : held[a][i] # <<>> => cpu[a][i] = held[a][i][1]

\* This step is a send() of array a that writes over a device result at a
\* cell set() did not write: the array is gpu_dirty, no load of it is pending.
C25_SendOverwrites(a) ==
    /\ Send(a)
    /\ cpu_dirty[a] /\ gpu_dirty[a] /\ load_promise[a] = 0
    /\ \E i \in Cells :
          /\ held[a][i] = <<>>
          /\ cpu[a][i] # DevApply(queue, a, gpu[a])[i]

\* C25: a value written by set(v, index) is in the host buffer, where a
\* get(index) that follows reads it, as long as no kernel writing the array is
\* submitted and no other set() writes that index, whatever gpu_dirty and the
\* pending load were when set() was called; and no send() replaces a device
\* result at an index that set() did not write.
C25_HostWriteKept ==
    /\ [](\A a \in Arrays : allocated[a] => C25_Kept(a))
    /\ [][\A a \in Arrays : ~C25_SendOverwrites(a)]_vars

(***************************************************************************)
(* Claims about SpecPure.                                                  *)
(***************************************************************************)
Returned(fn) == call.fn = fn /\ call.ret.error # "pending"

\* A shape left-padded with 1 to rank n.
PadLeft(s, n) ==
    [i \in 1..n |-> IF i <= n - Len(s) THEN 1 ELSE s[i - (n - Len(s))]]

\* Broadcasting as the documentation states it: per aligned axis the set of
\* extents other than 1 has at most one member, which is the extent of the result.
BroadcastOf(shapes) ==
    LET sh == [k \in DOMAIN shapes |->
                 IF shapes[k] = Undefined THEN <<1>> ELSE shapes[k]]
        n == CHOOSE m \in {Len(sh[k]) : k \in DOMAIN sh} :
                \A k \in DOMAIN sh : Len(sh[k]) <= m
        E(i) == {PadLeft(sh[k], n)[i] : k \in DOMAIN sh} \ {1}
    IN [ok |-> \A i \in 1..n : Cardinality(E(i)) <= 1,
        val |-> [i \in 1..n |-> IF E(i) = {} THEN 1 ELSE CHOOSE e \in E(i) : TRUE]]

SameResult(r1, r2) == r1.ok = r2.ok /\ (r1.ok => r1.val = r2.val)

\* C7: broadcastShapes returns, per axis aligned from the trailing one, the
\* common extent with 1 as a wildcard (an absent shape counts as [1]), raises
\* "Incompatible Shape" iff two shapes differ on an axis in extents other than 1,
\* and gives the same result for every order of its arguments.
C7_BroadcastShapes ==
    Returned("broadcastShapes") =>
        /\ SameResult(call.ret, BroadcastOf(call.args))
        /\ ~call.ret.ok => call.ret.error = "Incompatible Shape"
        /\ \A p \in Permutations(DOMAIN call.args) :
              SameResult(call.ret,
                         broadcastShapes([k \in DOMAIN call.args |-> call.args[p[k]]]))

C7_Witness ==
    /\ Returned("broadcastShapes")
    /\ call.args = <<<<2, 1, 3>>, <<3, 1>>, Undefined>>
    /\ call.ret.ok
    /\ call.ret.val = <<2, 3, 3>>

\* Stride broadcasting as the documentation states it.
StridesOf(array, shape) ==
    LET r == Len(array.shape)
        n == Len(shape)
        diff == n - r
    IN IF r > n THEN [ok |-> FALSE, val |-> <<>>]
       ELSE [ok |-> \A i \in 1..r : array.shape[i] \in {1, shape[i + diff]},
             val |-> [i \in 1..n |->
                        IF i <= diff THEN 0
                        ELSE IF array.shape[i - diff] = shape[i]
                             THEN array.strides[i - diff]
                             ELSE 0]]

\* C8: broadcastStrides returns the operand's strides left-padded with zeros to
\* the target rank, an axis keeping its stride where the extents agree and
\* getting 0 where the operand's extent is 1, and raises "Incompatible Shape"
\* for every axis whose extent differs from the target's and is not 1 and for
\* an operand of higher rank than the target, for derived and caller-supplied
\* strides alike.
C8_BroadcastStrides ==
    Returned("broadcastStrides") =>
        SameResult(call.ret, StridesOf(call.args[1], call.args[2]))

\* i32 and u32 are the integer types; f16 is below f32.
TypeRank(t) == CASE t = "f32" -> 2 [] t = "f16" -> 1 [] OTHER -> 0

Promotable(t1, t2) == t1 = t2 \/ TypeRank(t1) > 0 \/ TypeRank(t2) > 0

\* C9: over the ordered pairs of i32, u32, f16 and f32, promoteType returns
\* the common type of equal types, else f32 if either is f32, else f16 if either
\* is f16, raises "Incompatible Types" for i32 with u32 in either order, and is
\* symmetric; an f32 array combined with a u32 array gives an f32 array.
C9_PromoteType ==
    /\ (Returned("promoteType") /\ call.args \in DTypes \X DTypes) =>
          LET t1 == call.args[1]
              t2 == call.args[2]
          IN /\ call.ret.ok = Promotable(t1, t2)
             /\ call.ret.ok =>
                   call.ret.val = IF TypeRank(t1) >= TypeRank(t2) THEN t1 ELSE t2
             /\ ~call.ret.ok => call.ret.error = "Incompatible Types"
             /\ SameResult(call.ret, promoteType(t2, t1))
    /\ (/\ Returned("_vector_op")
        /\ {call.args[1].dtype, call.args[2].dtype} = {"f32", "u32"}) =>
          call.ret.ok /\ call.ret.val.dtype = "f32"

C9_Witness ==
    /\ Returned("promoteType")
    /\ call.args = <<"u32", "f16">>
    /\ call.ret.ok
    /\ call.ret.val = "f16"

\* The index tuple of the k-th element (counted from 0) in row-major order.
Unravel(k, shape) ==
    [i \in 1..Len(shape) |->
       (k \div Product(SubSeq(shape, i + 1, Len(shape)))) % shape[i]]

RECURSIVE Dot(_, _)
Dot(x, y) == IF x = <<>> THEN 0 ELSE Head(x) * Head(y) + Dot(Tail(x), Tail(y))

\* The offset in a contiguous operand of the element that output element k
\* reads under broadcasting: the operand's own index is the output's index on
\* the aligned axis, and 0 on an axis where the operand's extent is 1.
SourceOffset(k, operand, out) ==
    LET u == Unravel(k, out)
        diff == Len(out) - Len(operand)
        own == [i \in 1..Len(operand) |->
                  IF operand[i] = 1 THEN 0 ELSE u[i + diff]]
    IN Dot(own, DerivedStrides(operand))

BroadcastableTo(s, o) ==
    /\ Len(s) <= Len(o)
    /\ \A i \in 1..Len(s) : s[i] \in {1, o[i + (Len(o) - Len(s))]}

\* C4: for every contiguous output shape and operands broadcastable to it, the
\* strided kernel reads for output element k the operand element at offset
\* sum over the axes of unravel(k)[axis] * broadcastStrides(operand)[axis], so
\* that a + b holds at every index the sum of the operands' elements at the
\* broadcast-resolved index; [2,3] + [1] has shape [2,3].
C4_BroadcastAdd ==
    Returned("_vector_op") =>
        LET lhs == call.args[1]
            rhs == call.args[2]
            out == call.args[3]
            common == BroadcastOf(<<lhs.shape, rhs.shape>>)
            shape == IF out.made THEN out.shape ELSE common.val
            fits == IF out.made
                    THEN /\ BroadcastableTo(lhs.shape, shape)
                         /\ BroadcastableTo(rhs.shape, shape)
                    ELSE common.ok
        IN (fits /\ Promotable(lhs.dtype, rhs.dtype)) =>
              /\ call.ret.ok
              /\ call.ret.val.shape = shape
              /\ Len(call.ret.val.data) = Product(shape)
              /\ \A k \in 0..(Product(shape) - 1) :
                    /\ call.ret.val.data[k + 1]
                         = LhsData(lhs.length)[SourceOffset(k, lhs.shape, shape) + 1]
                           + RhsData(rhs.length)[SourceOffset(k, rhs.shape, shape) + 1]
                    /\ call.ret.val.strided =>
                          call.ret.val.offs[k + 1]
                            = <<Dot(Unravel(k, shape),
                                    broadcastStrides(lhs, shape).val),
                                Dot(Unravel(k, shape),
                                    broadcastStrides(rhs, shape).val)>>
              /\ (lhs.shape = <<2, 3>> /\ rhs.shape = <<1>> /\ ~out.made) =>
                    call.ret.val.shape = <<2, 3>>

C4_Witness ==
    /\ Returned("_vector_op")
    /\ call.args[1].shape = <<2, 1, 3>>
    /\ call.args[2].shape = <<3, 1>>
    /\ call.ret.ok
    /\ call.ret.val.strided
    /\ call.ret.val.shape = <<2, 3, 3>>
    /\ call.ret.val.offs[15] = <<5, 1>>
    /\ call.ret.val.data[15] = 2006

\* C17: min, max and pow of operands whose shapes differ and are broadcast-
\* compatible return, without raising, an output of the broadcast shape, made
\* by the strided program with arg0, arg1, out at slots 0, 1, 2 and the stride
\* arrays of arg0, arg1 and out at slots 3, 4, 5.
C17_Func2Broadcast ==
    (/\ Returned("_func2")
     /\ call.args[2].shape # call.args[3].shape
     /\ BroadcastOf(<<call.args[2].shape, call.args[3].shape>>).ok) =>
        /\ call.ret.ok
        /\ call.ret.val.shape
             = BroadcastOf(<<call.args[2].shape, call.args[3].shape>>).val
        /\ call.ret.val.strided
        /\ call.ret.val.program.slots
             = [arg0 |-> 0, arg1 |-> 1, out |-> 2,
                arg0_strides |-> 3, arg1_strides |-> 4, out_strides |-> 5]

\* C21: the source of every template, for every assignment of element types
\* to the arrays it declares, starts with the float16 enable directive when one
\* of those arrays is f16.
C21_Float16Enabled ==
    Returned("template") =>
        ("f16" \in call.ret.val.declares =>
            call.ret.val.directive = "enable f16;")

\* C26: for every contiguous output shape of rank 1 to 4 and every output
\* element k, the main of func2_indirect and of where_indirect, which subtract
\* i from O, find on each axis the index of the row-major unravel of k, and read
\* each operand at the dot product of that index with the operand's broadcast
\* strides.
C26_StridedOffsets ==
    Returned("dispatch") =>
        LET out == call.args[2]
            operands == call.args[3]
        IN \A k \in 0..(Product(out) - 1) :
              /\ call.ret.val.at[k + 1].i = Unravel(k, out)
              /\ \A n \in DOMAIN operands :
                    call.ret.val.at[k + 1].I[n]
                      = Dot(Unravel(k, out), broadcastStrides(operands[n], out).val)

\* C26 witness: where_indirect on an output of shape [3, 2, 3, 2] with cond of
\* shape [3, 1, 3, 2], True of shape [3, 2] and False of shape [1]: element 23
\* (index [1, 1, 2, 1]) reads cond at 11, True at 5 and False at 0.
C26_Witness ==
    /\ Returned("dispatch")
    /\ call.args[1] = "where_indirect"
    /\ call.args[2] = <<3, 2, 3, 2>>
    /\ call.args[3][1].shape = <<3, 1, 3, 2>>
    /\ call.args[3][2].shape = <<3, 2>>
    /\ call.ret.val.at[24].i = <<1, 1, 2, 1>>
    /\ call.ret.val.at[24].I = <<11, 5, 0>>

\* The variables of _vector_op whose descriptors are the parameters of the
\* template after op and size, and whose buffers it binds.
BindParams ==
    <<"lhs", "rhs", "out", "lhs_strides", "rhs_strides", "out_strides">>

\* C29: in _vector_op, for lhs and rhs each an array or a number and for the
\* direct and the strided program, exactly the descriptors of the arrays
\* (operands, out, stride arrays) carry a slot, the slots are 0..k-1 in the
\* order of the parameters, and entry i of the bind group has binding i and
\* the buffer whose descriptor carries slot i; a number has a descriptor
\* {scalar: true} without slot, no stride buffer is made for it, it is a key
\* of the constants, and a call with a number neither takes a pipeline from
\* the cache nor adds one to it.
C29_BindingSlots ==
    (Returned("_vector_op.execute") /\ call.ret.ok) =>
        LET lhs == call.args[1]
            rhs == call.args[2]
            r == call.ret.val
            n == Len(r.shader_args) - 2
            desc(p) == r.shader_args[p + 2]
            slotted == {p \in 1..n : "binding" \in DOMAIN desc(p)}
            scalar(p) == \/ p \in {1, 4} /\ ~IsNDArray(lhs)
                         \/ p \in {2, 5} /\ ~IsNDArray(rhs)
            scalars == {p \in 1..2 : scalar(p)}
            k == Cardinality(slotted)
        IN /\ n = IF r.strided THEN 6 ELSE 3
           /\ slotted = {p \in 1..n : ~scalar(p)}
           /\ \A p \in (1..n) \ slotted :
                 "scalar" \in DOMAIN desc(p) /\ desc(p).scalar
           /\ \A p \in slotted :
                 desc(p).binding = Cardinality({q \in slotted : q < p})
           /\ Len(r.entries) = k
           /\ \A i \in 1..k :
                 /\ r.entries[i].binding = i - 1
                 /\ \E p \in slotted : /\ desc(p).binding = i - 1
                                        /\ BindParams[p] = r.entries[i].buffer
           /\ r.strides = {BindParams[p] : p \in slotted \cap (4..6)}
           /\ (r.constants.kind = "object") = (scalars # {})
           /\ scalars # {} =>
                 /\ r.constants.keys = {BindParams[p] : p \in scalars}
                 /\ ~r.pipeline.reused
                 /\ r.pipeline.pipe = call.args[4]

C29_Witness ==
    /\ Returned("_vector_op.execute")
    /\ ~IsNDArray(call.args[1])
    /\ HasCustomStrides(call.args[2])
    /\ call.args[4] # {}
    /\ call.ret.ok
    /\ call.ret.val.strided
    /\ Len(call.ret.val.entries) = 4
    /\ [i \in 1..4 |-> call.ret.val.entries[i].buffer]
         = <<"rhs", "out", "rhs_strides", "out_strides">>
    /\ call.ret.val.shader_args[7].binding = 2
    /\ call.ret.val.constants.keys = {"lhs"}
    /\ call.ret.val.pipeline.pipe = call.args[4]

(***************************************************************************)
(* Claims about SpecShape.                                                 *)
(***************************************************************************)
ValidIndex(index, shape) ==
    /\ Len(index) = Len(shape)
    /\ \A i \in 1..Len(index) : index[i] < shape[i]

\* The row-major linear position of an index tuple in a shape.
RowMajor(index, shape) == Dot(index, DerivedStrides(shape))

\* C5: after a successful reshape of an array without custom strides, get and
\* set with an index tuple valid for the new shape address the element at the
\* tuple's row-major linear position in the unchanged storage, an offset in
\* [0, length).
C5_ReshapeKeepsOrder ==
    (/\ nd.made
     /\ nd.reshaped = "ok"
     /\ idx.done
     /\ ValidIndex(idx.index, nd.array.shape)) =>
        LET k == RowMajor(idx.index, nd.array.shape)
        IN /\ idx.error = ""
           /\ idx.offset = k
           /\ idx.offset \in 0..(nd.array.length - 1)
           /\ idx.fn = "get" => idx.value = LhsData(nd.array.length)[k + 1]
           /\ idx.fn = "set" =>
                 nd.cpu = Store(LhsData(nd.array.length), k, Written)

\* C18: get_without_load, get and set called with fewer indices than the
\* array's rank (for set, at least one) or with more report an error and leave
\* the array as it was: host buffer, cpu_dirty, gpu_dirty.
C18_PartialIndexNoEffect ==
    [][\A index \in Indices :
         ((GetWithoutLoad(index) \/ SetIndex(Written, index))
            /\ Len(index) # Len(nd.array.shape))
             => /\ idx'.error # ""
                /\ nd'.cpu = nd.cpu
                /\ nd'.cpu_dirty = nd.cpu_dirty
                /\ nd'.gpu_dirty = nd.gpu_dirty]_vars

\* reshape(shape) on the array of SpecShape is permitted.
C19_Permitted(shape) ==
    LET sh == IF shape = Undefined THEN <<1>> ELSE shape
    IN /\ ~nd.array.custom_strides
       /\ \A i \in DOMAIN sh : sh[i] > 0
       /\ Product(sh) = nd.array.length

\* C19: reshape succeeds iff the array has no custom strides, every new
\* extent is positive and the product of the new shape is the array's element
\* count; a failing reshape raises an error and leaves the shape as it was; a
\* successful one changes the shape only: host buffer, device buffer, length
\* and both dirty flags are as before.
C19_ReshapeFrame ==
    [][\A shape \in ReshapeArgs :
         Reshape(shape) =>
            /\ (nd'.reshaped = "ok") = C19_Permitted(shape)
            /\ nd'.reshaped # "no"
            /\ nd'.array.shape =
                  (IF C19_Permitted(shape)
                   THEN (IF shape = Undefined THEN <<1>> ELSE shape)
                   ELSE nd.array.shape)
            /\ [nd'.array EXCEPT !.shape = nd.array.shape] = nd.array
            /\ nd'.cpu = nd.cpu
            /\ nd'.cpu_dirty = nd.cpu_dirty
            /\ nd'.gpu_dirty = nd.gpu_dirty
            /\ UNCHANGED devvars]_vars

\* C19 witness: the reshape of an array of shape [2, 3] to [3, 2] has
\* returned: the shape is new, the strides and the host buffer are not.
C19_Witness ==
    /\ nd.made
    /\ nd.reshaped = "ok"
    /\ nd.array.shape = <<3, 2>>
    /\ nd.array.strides = <<3, 1>>
    /\ nd.cpu = LhsData(6)

(***************************************************************************)
(* Claims about SpecReduce.                                                *)
(***************************************************************************)
\* Every one of the n input elements occurs in src, and once.
EachOnce(src, n) ==
    /\ Len(src) = n
    /\ \A i \in 1..n : \E j \in 1..n : src[j] = i

\* The reduction of the input InputValue gives.
Reduced(op, n) ==
    CASE op = "+" -> 2 * n
      [] op = "*" -> Pow2(Min(n, 4))
      [] op = "min" -> 1
      [] op = "max" -> n

\* C6: for every contiguous input of length n >= 1, sum, prod, minimum and
\* maximum end after finitely many passes (two at most) and return, not
\* throw, a 1-element array whose value combines every input element exactly
\* once; the sum of 300 twos is 600 and the sum of 32 twos is 64.
C6_ReduceAll ==
    /\ red.pc = "thrown" => red.error = "custom strides"
    /\ red.pc = "loop" => (red.passes <= 1 /\ (red.passes = 1 => Len(red.arg) <= 64))
    /\ red.pc = "returned" =>
          /\ Len(red.arg) = 1
          /\ EachOnce(red.arg[1].src, red.n)
          /\ red.arg[1].v = Reduced(red.op, red.n)
          /\ (red.op = "+" /\ red.n = 300) => red.arg[1].v = 600
          /\ (red.op = "+" /\ red.n = 32) => red.arg[1].v = 64

\* C30: sum, prod, minimum and maximum of a contiguous array of any of the
\* four element types that the constructor accepts (an f16 array of an even
\* number of elements among them) return a 1-element array of the type of the
\* input and do not throw.
C30_ReduceEveryType ==
    (red.pc \in {"thrown", "returned"} /\ red.error # "custom strides") =>
        /\ red.error = ""
        /\ red.pc = "returned"
        /\ Len(red.arg) = 1

(***************************************************************************)
(* Claims about SpecBackend.                                               *)
(***************************************************************************)
\* The step is a host call.
HostCallStep == be'.ncalls # be.ncalls

\* C11: the recorded loss of the device is never cleared, and every host call
\* made after it (Array/ones, createShader, createLayout, execute, the builtin
\* operations, send, load) creates no buffer and gives the queue nothing; the
\* calls that always allocate or submit throw.
C11_LostIsTerminal ==
    [][/\ be.lost => be'.lost
       /\ (be.lost /\ HostCallStep) =>
             /\ be'.last.created = 0
             /\ be'.last.queued = 0
             /\ be'.last.fn \in {"ones", "createShader", "createLayout",
                                 "execute", "add", "max", "sum"}
                   => be'.last.threw # ""]_vars

\* C12: no operation of the queue that has not completed references a
\* destroyed stride buffer.
C12_StridesOutliveWork ==
    \A i \in DOMAIN be.queue : \A r \in be.queue[i].refs :
        be.bufs[r].kind = "strides" => ~be.bufs[r].destroyed

\* C12 witness: the stride buffers of a broadcasting add were destroyed by
\* their callback while operations of a later call are in the queue.
C12_Witness ==
    /\ be.queue # <<>>
    /\ \E r \in DOMAIN be.bufs :
          be.bufs[r].kind = "strides" /\ be.bufs[r].destroyed

NoDuplicates(s) == \A i, j \in DOMAIN s : i # j => s[i] # s[j]

\* The device compiled each source text and made each layout key once, and a
\* cache holds one entry per key.
C13_CacheOnce ==
    /\ NoDuplicates(be.compiled)
    /\ NoDuplicates(be.layouts)
    /\ \A e1, e2 \in be.shader : e1.code = e2.code => e1 = e2
    /\ \A e1, e2 \in be.layout : e1.key = e2.key => e1 = e2

\* No step removes or replaces a cache entry; createShader and createLayout
\* return the entry of the cache, the one that was there if there was one.
C13_CacheStep ==
    /\ be.shader \subseteq be'.shader
    /\ be.layout \subseteq be'.layout
    /\ (BCreateShader(UserCode) /\ ~be.lost) =>
          /\ [code |-> UserCode, id |-> be'.last.ret] \in be'.shader
          /\ (\E e \in be.shader : e.code = UserCode) =>
                /\ be'.shader = be.shader
                /\ be'.compiled = be.compiled
    /\ \A modes \in UserModes :
          (BCreateLayout(modes) /\ ~be.lost) =>
             /\ [key |-> LayoutKey(modes), id |-> be'.last.ret] \in be'.layout
             /\ (\E e \in be.layout : e.key = LayoutKey(modes)) =>
                   /\ be'.layout = be.layout
                   /\ be'.layouts = be.layouts

\* C13: the program cache and the layout cache only grow and hold one entry
\* per key: the device compiles a source text at most once and makes a layout
\* at most once per read/write signature, no entry is removed or replaced, and
\* a repeated request returns the entry of the first.
C13_CachesAppendOnly == [](C13_CacheOnce) /\ [][C13_CacheStep]_vars

\* C13 witness: two calls, both createShader of one source text, and the
\* device compiled it once; the second call returned the module of the first.
C13_Witness ==
    /\ ~be.lost
    /\ be.ncalls = 2
    /\ be.bufs = <<>>
    /\ be.layouts = <<>>
    /\ be.compiled = <<UserCode>>
    /\ be.last.fn = "createShader"
    /\ be.last.ret = 1

\* C14: a builtin operation that returns has given the queue exactly one
\* submission with all its kernel dispatches.
C14_OneSubmission ==
    (be.last.fn \in {"add", "max", "sum"} /\ be.last.threw = "")
        => be.last.submits = 1

\* Buffer n is a stride buffer that has not been destroyed.
StridesLive(n) ==
    /\ n \in DOMAIN be.bufs
    /\ be.bufs[n].kind = "strides"
    /\ ~be.bufs[n].destroyed

\* No call creates more than four buffers.
BufferIds == 1..(4 * MaxCalls)

\* C23: every stride buffer created during a call of an elementwise
\* operation is eventually destroyed, whether the call returns or throws, and
\* the array a call returns is not a stride buffer.
C23_StridesDestroyed ==
    /\ [](be.last.fn \in {"add", "max"} /\ be.last.threw = ""
            => be.bufs[be.last.ret].kind = "array")
    /\ \A n \in BufferIds : [](StridesLive(n) => <>~StridesLive(n))

\* C27: a reduction of several passes destroys only its intermediate arrays,
\* each when no pass in the queue references it any more; the arrays a caller
\* holds (the inputs and the results of the calls) are never destroyed.
C27_ReduceDestroys ==
    /\ \A n \in DOMAIN be.bufs :
          be.bufs[n].kind = "array" => ~be.bufs[n].destroyed
    /\ \A i \in DOMAIN be.queue : \A r \in be.queue[i].refs :
          be.bufs[r].kind = "intermediate" => ~be.bufs[r].destroyed

(***************************************************************************)
(* Claims about SpecPRNG.                                                  *)
(***************************************************************************)
\* Generators i and j were constructed with the same seed and size.
SameOptions(i, j) ==
    prng[i].seed = prng[j].seed /\ prng[i].size = prng[j].size

\* The first k requests of next(dtype) on generators i and j were the same.
SameRequests(i, j, k) ==
    \A h \in 1..k : prng[i].outs[h].dtype = prng[j].outs[h].dtype

\* C15: two generators constructed with the same seed and size hold the same
\* state after the same number of next() calls and, asked the same sequence
\* of next(dtype) requests, gave the same output at every call; two
\* successive outputs of one generator differ.
C15_SameSeedSameOutputs ==
    /\ \A i, j \in DOMAIN prng :
          SameOptions(i, j) =>
             /\ Len(prng[i].outs) = Len(prng[j].outs) => prng[i].rows = prng[j].rows
             /\ \A k \in DOMAIN prng[i].outs \cap DOMAIN prng[j].outs :
                   SameRequests(i, j, k) =>
                      prng[i].outs[k].data = prng[j].outs[k].data
    /\ \A i \in DOMAIN prng : \A k \in DOMAIN prng[i].outs :
          (k + 1 \in DOMAIN prng[i].outs
             /\ prng[i].outs[k].dtype = prng[i].outs[k + 1].dtype)
          => prng[i].outs[k].data # prng[i].outs[k + 1].data

\* This step is a call of normal() on generator i.
NormalCalled(i) == Len(prng'[i].asked) = Len(prng[i].asked) + 1

\* Every call of normal() on generator i so far, this one included, asked
\* for the same type.
SameType(i) ==
    \A k \in DOMAIN prng'[i].asked : prng'[i].asked[k] = prng'[i].asked[1]

\* The 1st, 3rd, ... call: two uniforms are drawn, every stream advances by
\* two steps, a new array is returned and another one is cached.
C16_OddCall(i) ==
    /\ be'.last.threw = ""
    /\ Len(prng'[i].outs) = Len(prng[i].outs) + 2
    /\ prng'[i].rows = AdvanceRows(AdvanceRows(prng[i].rows, prng[i].size),
                                   prng[i].size)
    /\ be'.last.ret \notin DOMAIN be.bufs
    /\ prng'[i].rng \notin DOMAIN be.bufs
    /\ prng'[i].rng # be'.last.ret

\* The 2nd, 4th, ... call: the cached array is returned, the cache is empty
\* and the generator has not advanced.
C16_EvenCall(i) ==
    /\ be'.last.threw = ""
    /\ prng[i].rng # 0
    /\ be'.last.ret = prng[i].rng
    /\ prng'[i].rng = 0
    /\ prng'[i].outs = prng[i].outs
    /\ prng'[i].rows = prng[i].rows
    /\ be'.last.queued = 0

\* C16: in a sequence of normal(t) calls with one type t, the odd calls draw
\* two uniforms, return one output and cache the other, the even calls
\* return the cached output without advancing the generator; no array is
\* returned by two calls and the cached array is not destroyed.
C16_NormalAlternates ==
    [][\A i \in DOMAIN prng :
          /\ (NormalCalled(i) /\ SameType(i)) =>
                IF Len(prng'[i].asked) % 2 = 1 THEN C16_OddCall(i)
                ELSE C16_EvenCall(i)
          /\ NoDuplicates(prng'[i].returned)
          /\ prng'[i].rng # 0 => ~be'.bufs[prng'[i].rng].destroyed]_vars

\* The type the latest call of normal() on generator i asked for.
AskedType(i) == prng'[i].asked[Len(prng'[i].asked)]

\* C22: normal(dtype) accepts "f32" and "f16": for either the call returns,
\* without raising, an array of shape [size] (of the requested type: the
\* array it caches for the next call is recorded with that type).
C22_NormalAccepts ==
    [][\A i \in DOMAIN prng :
          (NormalCalled(i) /\ AskedType(i) \in {"f32", "f16"}) =>
             /\ be'.last.threw = ""
             /\ be'.last.ret \in DOMAIN be'.bufs
             /\ be'.bufs[be'.last.ret].shape = <<prng[i].size>>
             /\ prng'[i].rng # 0 => prng'[i].rng_dtype = AskedType(i)]_vars

\* One step of a jump of the stream x: the accumulator s takes x when the bit
\* of JUMP is set, then x advances.
SkipBody(k, m) ==
    [x |-> Advance(m.x),
     s |-> IF Bit32(JUMP[(k \div 32) + 1], k % 32) # 0 THEN XorVec4(m.s, m.x)
           ELSE m.s]

RECURSIVE SkipLoop(_, _, _)
\* steps lo..hi of the jump, in order
SkipLoop(lo, hi, m) ==
    IF lo = hi THEN SkipBody(lo, m)
    ELSE LET mid == (lo + hi) \div 2
         IN  Only({SkipLoop(mid + 1, hi, x) : x \in {SkipLoop(lo, mid, m)}})

\* The stream that one jump derives from the stream x: 128 advances of x, the
\* states of x at the set bits of JUMP accumulated by XOR.
Skip(x) == SkipLoop(0, 127, [x |-> x, s |-> ZeroVec4]).s

RECURSIVE Streams(_, _)
\* n streams: the first is the seeded one, each next the jump of the one before
Streams(first, n) ==
    IF n = 1 THEN <<first>>
    ELSE Only({Append(rows, Skip(rows[n - 1])) : rows \in {Streams(first, n - 1)}})

\* The streams that the claim gives each generator of the model, computed once.
SeededStreams ==
    {[seed |-> seed, size |-> size, rows |-> Streams(SplitMix64(seed), size)] :
        seed \in Seeds, size \in Sizes}

\* C28: when the constructor's init program has run, stream 0 holds the four
\* words the host seeded and stream i >= 1 is the jump of stream i - 1: 128
\* advances of stream i alone, which accumulates its own states; no other
\* stream is modified.
C28_InitStreams ==
    \A i \in DOMAIN prng :
        prng[i].outs = <<>> =>
            [seed |-> prng[i].seed, size |-> prng[i].size, rows |-> prng[i].rows]
                \in SeededStreams

====
